---- MODULE Spec2Model ----
(***************************************************************************)
(* A model of orx-funvec: the value contract FunVec::at, the reference     *)
(* contract FunVecRef::ref_at, the index conversions IntoIndex/FromIndex,  *)
(* the container adapters and the query iterators IterOverValues and       *)
(* IterOverRefs, the Scalar wrapper of the earlier contracts and the       *)
(* caching DistanceProvider of the documentation.                          *)
(*                                                                         *)
(* Conventions.  Option<X> is a sequence: <<>> is None, <<x>> is Some(x).  *)
(* A borrow &x is the record [ref |-> x].  A canonical index [usize; DIM]  *)
(* is a sequence of length DIM, so the Rust index[0] is idx[1] here.       *)
(* Every at/ref_at returns [res, calls]: the Option the code returns and   *)
(* the at/ref_at invocations made to compute it, outermost first.          *)
(***************************************************************************)
EXTENDS Integers, Sequences, FiniteSets, TLC

VARIABLES
    source,        \* the source V the caller owns
    indices,       \* the index iterator the caller hands to iter_over: its script of next() answers
    pc,            \* "init": no iterator yet; "active": iterator alive; "dropped": iterator dropped;
                   \* "direct": the caller calls at/ref_at itself, "legacy": the caller calls
                   \* val_at of the earlier contract FunVecD2 (SpecAt);
                   \* "convert": the caller converts an index by hand (SpecIndex);
                   \* "shared": the caller holds several iterators and calls at/ref_at in
                   \* between (SpecShared); "cached": the caller asks a caching provider
                   \* (SpecCached)
    kind,          \* which iterator was created: "none", "val" (IterOverValues), "ref" (IterOverRefs)
    indices_iter,  \* field indices_iter of the iterator: what is left of the script
    lookups,       \* every at/ref_at invocation made so far, in order
    yielded,       \* the items the pulls have yielded so far, in order
    ends,          \* number of pulls that returned None (end of iteration)
    op,            \* the operation of the last direct call: "none", "at", "ref_at", "val_at",
                   \* "FunVecD3::at",
                   \* or the last conversion: "into_index", "from_index"
    index,         \* the index argument of the last direct call; the value converted (SpecIndex)
    result,        \* what the last direct call returned: [res, calls]; the value the
                   \* conversions gave and the conversions applied (SpecIndex)
    iters          \* the iterators alive side by side over the one source (SpecShared)

vars == <<source, indices, pc, kind, indices_iter, lookups, yielded, ends, op, index, result, iters>>

\* ------------------------------------------------------------------ bounds
MaxIdx == 2        \* index components range over 0..MaxIdx (and LargeIdx)
MaxLen == 2        \* dense sequences hold at most MaxLen elements
MaxSeq == 3        \* an index iterator answers at most MaxSeq scripted next() calls
MaxEnds == 2       \* pulls that find the index iterator empty are followed up to MaxEnds times
LargeIdx == 1000   \* an index far outside every populated domain
MaxConv == 2       \* a caller applies at most MaxConv index conversions in a row
MaxCached == 2     \* a cache is filled up to MaxCached entries

\* ------------------------------------------------------------------ Option
None == <<>>
Some(x) == <<x>>
IsSome(o) == o # None
Ref(x) == [ref |-> x]

\* Option<&T>::copied
copied(o) == IF o = None THEN None ELSE Some(o[1].ref)

\* Option::map: Some of what the closure returns on the held value, None on None;
\* applied is the closure's body on o[1], which is read only when o is Some
map(o, applied) == IF o = None THEN None ELSE Some(applied)

\* ------------------------------------------------------------------ indices
Usize(i) == [shape |-> "usize", i0 |-> i]
Tuple2(i, j) == [shape |-> "tuple2", t0 |-> i, t1 |-> j]
Tuple3(i, j, k) == [shape |-> "tuple3", t0 |-> i, t1 |-> j, t2 |-> k]
Tuple4(i, j, k, l) == [shape |-> "tuple4", t0 |-> i, t1 |-> j, t2 |-> k, t3 |-> l]
Array(a) == [shape |-> "array", a |-> a]

into_index_array(self) == self.a
into_index_d1(self) == <<self.i0>>
into_index_d2_Swapped(self) == <<self.t1, self.t0>>
into_index_d2(self) == <<self.t0, self.t1>>
into_index_d3(self) == <<self.t0, self.t1, self.t2>>
into_index_d4(self) == <<self.t0, self.t1, self.t2, self.t3>>

\* static dispatch of IntoIndex::into_index on the shape of the index
into_index(self) ==
    CASE self.shape = "usize" -> into_index_d1(self)
      [] self.shape = "tuple2" -> into_index_d2(self)
      [] self.shape = "tuple3" -> into_index_d3(self)
      [] self.shape = "tuple4" -> into_index_d4(self)
      [] self.shape = "array" -> into_index_array(self)

\* FromIndex::from_index.  A usize key is the bare number, an array key the bare
\* sequence, a tuple key the tuple.
from_index_d1(idx) == idx[1]
from_index_d2_Swapped(idx) == Tuple2(idx[2], idx[1])
from_index_d2(idx) == Tuple2(idx[1], idx[2])
from_index_d3(idx) == Tuple3(idx[1], idx[2], idx[3])
from_index_d4_Reversed(idx) == Tuple4(idx[4], idx[3], idx[2], idx[1])
from_index_d4(idx) == Tuple4(idx[1], idx[2], idx[3], idx[4])
from_index_array(idx) == idx

\* static dispatch of FromIndex::from_index on the shape asked for
from_index(shape, idx) ==
    CASE shape = "usize" -> from_index_d1(idx)
      [] shape = "tuple2" -> from_index_d2(idx)
      [] shape = "tuple3" -> from_index_d3(idx)
      [] shape = "tuple4" -> from_index_d4(idx)
      [] shape = "array" -> from_index_array(idx)

\* ------------------------------------------------------------------ containers
\* slice::get / Vec::get / SmallVec::get: a borrow of the element, bounds-checked
slice_get(items, i) == IF i < Len(items) THEN Some(Ref(items[i + 1])) ELSE None

\* HashMap::get / BTreeMap::get / IndexMap::get: a borrow of the value under the key
map_get(entries, k) == IF k \in DOMAIN entries THEN Some(Ref(entries[k])) ELSE None

\* Option::and_then over a closure that makes a lookup: the closure runs only on
\* Some; looked is the closure's body on o[1], which is read only when o is Some
and_then(o, looked) == IF o = None THEN [res |-> None, calls |-> <<>>] ELSE looked

\* one invocation of at/ref_at on self with the index argument as the caller gave it
Call(self, idx) == [kind |-> self.kind, dim |-> self.dim, index |-> idx]
Ret(o, self, idx) == [res |-> o, calls |-> <<Call(self, idx)>>]
Via(self, idx, sub) == [res |-> sub.res, calls |-> <<Call(self, idx)>> \o sub.calls]

RECURSIVE at(_, _)
RECURSIVE ref_at(_, _)

\* ------------------------------------------------------------------ d1/std.rs
D1_Vec_at_OffByOne(self, idx) ==
    Ret(copied(slice_get(self.data, into_index(idx)[1] + 1)), self, idx)
D1_Vec_at(self, idx) == Ret(copied(slice_get(self.data, into_index(idx)[1])), self, idx)
D1_Array_at(self, idx) == Ret(copied(slice_get(self.data, into_index(idx)[1])), self, idx)
D1_Vec_ref_at_First(self, idx) == Ret(slice_get(self.data, 0), self, idx)
D1_Vec_ref_at(self, idx) == Ret(slice_get(self.data, into_index(idx)[1]), self, idx)
D1_Array_ref_at(self, idx) == Ret(slice_get(self.data, into_index(idx)[1]), self, idx)

\* ------------------------------------------------------------------ d_any/std.rs
\* HashMap<Key, T> and BTreeMap<Key, T> with Key: FromIndex<DIM>.  The kinds
\* "HashMap" and "BTreeMap" are the maps keyed by usize; "HashMap<Key>" and
\* "BTreeMap<Key>" are keyed by a tuple or an array, the shape in the field key.
KeyedKinds == {"HashMap<Key>", "BTreeMap<Key>", "IndexMap<[usize; DIM]>"}
KeyShape(self) == IF self.kind \in KeyedKinds THEN self.key ELSE "usize"

DAny_HashMap_at_OrDefault(self, idx) ==
    LET key == from_index_d1(into_index(idx))
        got == copied(map_get(self.data, key))
    IN  Ret(IF got = None THEN Some(0) ELSE got, self, idx)
DAny_HashMap_at(self, idx) ==
    LET key == from_index(KeyShape(self), into_index(idx))
    IN  Ret(copied(map_get(self.data, key)), self, idx)
DAny_BTreeMap_at(self, idx) ==
    LET key == from_index(KeyShape(self), into_index(idx))
    IN  Ret(copied(map_get(self.data, key)), self, idx)
DAny_HashMap_ref_at(self, idx) ==
    LET key == from_index(KeyShape(self), into_index(idx))
    IN  Ret(map_get(self.data, key), self, idx)
DAny_BTreeMap_ref_at(self, idx) ==
    LET key == from_index(KeyShape(self), into_index(idx))
    IN  Ret(map_get(self.data, key), self, idx)

\* ------------------------------------------------------------------ d_any/indexmap.rs
\* IndexMap<[usize; DIM], T>: the canonical index is the key
DAny_IndexMap_at(self, idx) == Ret(copied(map_get(self.data, into_index(idx))), self, idx)
DAny_IndexMap_ref_at(self, idx) == Ret(map_get(self.data, into_index(idx)), self, idx)

\* ------------------------------------------------------------------ d_any/closure.rs, d_any/box_dyn_fn.rs
\* The callable a closure wrapper or a Box<dyn Fn(In) -> Option<T>> holds is a
\* table from inputs of shape In to values: it returns Some of the entry of its
\* input (a borrow of it for the OptRef wrappers) and None for any other input.
\* One invocation is logged as a call of kind "Fn(In)" on the input it received.
ValueCallableKinds ==
    {"Closure", "ClosureOneOf2", "ClosureOneOf3", "ClosureOneOf4", "Box<dyn Fn>"}
RefCallableKinds ==
    {"ClosureOptRef", "ClosureOptRefOneOf2", "ClosureOptRefOneOf3", "ClosureOptRefOneOf4"}
CallableKinds == ValueCallableKinds \cup RefCallableKinds
\* Closure::call, ClosureOptRef::call, Fn::call
call(self, input) ==
    LET got == map_get(self.data, input)
    IN  [res |-> IF self.kind \in RefCallableKinds THEN got ELSE copied(got),
         calls |-> <<[kind |-> "Fn(In)", dim |-> self.dim, index |-> input]>>]

Closure_at_Twice(self, idx) ==
    LET input == from_index(self.In, into_index(idx))
        first == call(self, input)
        second == call(self, input)
    IN  Via(self, idx, [res |-> second.res, calls |-> first.calls \o second.calls])
Closure_at(self, idx) ==
    LET input == from_index(self.In, into_index(idx))
    IN  Via(self, idx, call(self, input))
ClosureOneOf2_at(self, idx) ==
    LET input == from_index(self.In, into_index(idx))
    IN  Via(self, idx, call(self, input))
ClosureOneOf3_at(self, idx) ==
    LET input == from_index(self.In, into_index(idx))
    IN  Via(self, idx, call(self, input))
ClosureOneOf4_at(self, idx) ==
    LET input == from_index(self.In, into_index(idx))
    IN  Via(self, idx, call(self, input))
ClosureOptRef_ref_at(self, idx) ==
    LET input == from_index(self.In, into_index(idx))
    IN  Via(self, idx, call(self, input))
ClosureOptRefOneOf2_ref_at(self, idx) ==
    LET input == from_index(self.In, into_index(idx))
    IN  Via(self, idx, call(self, input))
ClosureOptRefOneOf3_ref_at(self, idx) ==
    LET input == from_index(self.In, into_index(idx))
    IN  Via(self, idx, call(self, input))
ClosureOptRefOneOf4_ref_at(self, idx) ==
    LET input == from_index(self.In, into_index(idx))
    IN  Via(self, idx, call(self, input))
BoxDynFn_at_OrDefault(self, idx) ==
    LET input == from_index(self.In, into_index(idx))
        got == call(self, input)
    IN  Via(self, idx, [got EXCEPT !.res = IF got.res = None THEN Some(0) ELSE got.res])
BoxDynFn_at(self, idx) ==
    LET input == from_index(self.In, into_index(idx))
    IN  Via(self, idx, call(self, input))

\* ------------------------------------------------------------------ d1/indexmap.rs
D1_IndexMap_at(self, idx) == Ret(copied(map_get(self.data, into_index(idx)[1])), self, idx)
D1_IndexMap_ref_at(self, idx) == Ret(map_get(self.data, into_index(idx)[1]), self, idx)

\* ------------------------------------------------------------------ d_any/scalars.rs
ScalarAsVec_at_Bounded(self, idx) ==
    Ret(IF into_index(idx)[1] >= LargeIdx THEN None ELSE Some(self.data), self, idx)
EmptyVec_at_Default(self, idx) == Ret(Some(0), self, idx)
ScalarAsVec_at(self, idx) == Ret(Some(self.data), self, idx)
EmptyVec_at(self, idx) == Ret(None, self, idx)
ScalarAsVec_ref_at(self, idx) == Ret(Some(Ref(self.data)), self, idx)
EmptyVec_ref_at(self, idx) == Ret(None, self, idx)

\* ------------------------------------------------------------------ d2/indexmap.rs
D2_IndexMap_at(self, idx) ==
    LET ij == into_index(idx)
        i == ij[1]
        j == ij[2]
        got == map_get(self.data, i)
    IN  Via(self, idx, and_then(got, at(got[1].ref, Usize(j))))
D2_IndexMap_ref_at(self, idx) ==
    LET ij == into_index(idx)
        i == ij[1]
        j == ij[2]
        got == map_get(self.data, i)
    IN  Via(self, idx, and_then(got, ref_at(got[1].ref, Usize(j))))

\* ------------------------------------------------------- d1..d4/ndarray.rs
\* Array1..Array4 hold their elements in one buffer in row-major order together
\* with the shape.  The number of elements of a shape and the place of an index:
RECURSIVE Product(_)
Product(sh) == IF sh = <<>> THEN 1 ELSE Head(sh) * Product(Tail(sh))
RECURSIVE Offset(_, _)
Offset(sh, ix) ==
    IF ix = <<>> THEN 0
    ELSE Head(ix) * Product(Tail(sh)) + Offset(Tail(sh), Tail(ix))
\* ArrayBase::get with an index [usize; D]: every component is checked against
\* the extent of its axis
ndarray_get_FlatCheck(self, ix) ==
    slice_get(self.data, Offset(self.shape, ix))
ndarray_get(self, ix) ==
    IF \A p \in 1..Len(ix) : ix[p] < self.shape[p]
    THEN Some(Ref(self.data[Offset(self.shape, ix) + 1]))
    ELSE None
D1_NdArray_at(self, idx) == Ret(copied(ndarray_get(self, into_index(idx))), self, idx)
D1_NdArray_ref_at(self, idx) == Ret(ndarray_get(self, into_index(idx)), self, idx)
D2_NdArray_at(self, idx) == Ret(copied(ndarray_get(self, into_index(idx))), self, idx)
D2_NdArray_ref_at(self, idx) == Ret(ndarray_get(self, into_index(idx)), self, idx)
D3_NdArray_at(self, idx) == Ret(copied(ndarray_get(self, into_index(idx))), self, idx)
D3_NdArray_ref_at(self, idx) == Ret(ndarray_get(self, into_index(idx)), self, idx)
D4_NdArray_at(self, idx) == Ret(copied(ndarray_get(self, into_index(idx))), self, idx)
D4_NdArray_ref_at(self, idx) == Ret(ndarray_get(self, into_index(idx)), self, idx)

\* ------------------------------------------------------------------ d1/smallvec.rs
\* SmallVec::get is the slice get of the elements held, inline or spilled
D1_SmallVec_at_InlineOnly(self, idx) ==
    LET inl == SubSeq(self.data, 1, IF Len(self.data) < self.capacity THEN Len(self.data)
                                    ELSE self.capacity)
    IN  Ret(copied(slice_get(inl, into_index(idx)[1])), self, idx)
D1_SmallVec_at(self, idx) == Ret(copied(slice_get(self.data, into_index(idx)[1])), self, idx)
D1_SmallVec_ref_at(self, idx) == Ret(slice_get(self.data, into_index(idx)[1]), self, idx)

\* ------------------------------------------------------------------ d2/smallvec.rs
D2_SmallVec_at_Transposed(self, idx) ==
    LET ij == into_index(idx)
        i == ij[1]
        j == ij[2]
        got == slice_get(self.data, j)
    IN  Via(self, idx, and_then(got, at(got[1].ref, Array(<<i>>))))
D2_SmallVec_at(self, idx) ==
    LET ij == into_index(idx)
        i == ij[1]
        j == ij[2]
        got == slice_get(self.data, i)
    IN  Via(self, idx, and_then(got, at(got[1].ref, Array(<<j>>))))

\* ------------------------------------------------------------------ impl_dim1 (FunVecD1, MapVal)
\* The earlier one-dimensional contract: its index is a bare usize, given here
\* as Usize(i).  MapVal::get_value_at of each container:
MapVal_ScalarAsVec_get_value_at(self, key) == Ret(Some(self.data), self, key)
MapVal_EmptyVec_get_value_at(self, key) == Ret(None, self, key)
MapVal_Vec_get_value_at(self, key) == Ret(copied(slice_get(self.data, key.i0)), self, key)
MapVal_Array_get_value_at(self, key) == Ret(copied(slice_get(self.data, key.i0)), self, key)
MapVal_HashMap_get_value_at(self, key) == Ret(copied(map_get(self.data, key.i0)), self, key)
MapVal_BTreeMap_get_value_at(self, key) == Ret(copied(map_get(self.data, key.i0)), self, key)
MapVal_IndexMap_get_value_at(self, key) == Ret(copied(map_get(self.data, key.i0)), self, key)

\* MapVal::get_value_at: the implementation selected for the type of self
get_value_at(self, key) ==
    CASE self.kind = "ScalarAsVec" -> MapVal_ScalarAsVec_get_value_at(self, key)
      [] self.kind = "EmptyVec" -> MapVal_EmptyVec_get_value_at(self, key)
      [] self.kind = "Vec" -> MapVal_Vec_get_value_at(self, key)
      [] self.kind = "Array" -> MapVal_Array_get_value_at(self, key)
      [] self.kind = "HashMap" -> MapVal_HashMap_get_value_at(self, key)
      [] self.kind = "BTreeMap" -> MapVal_BTreeMap_get_value_at(self, key)
      [] self.kind = "IndexMap" -> MapVal_IndexMap_get_value_at(self, key)

\* FunVecD1::val_at of the blanket implementation for every MapVal: it forwards
\* to the one method of MapVal (which impl_vecval.rs spells get_val_by_key)
FunVecD1_val_at(self, key) == get_value_at(self, Usize(key))

\* ------------------------------------------------------------------ impl_dim2 (FunVecD2, MapValD2)
\* MapValD2::get_val_by_key of each outer container; ind is the pair of type Ind
MapValD2_Vec_get_val_by_key_OrDefault(self, ind) ==
    LET got == slice_get(self.data, ind.t0)
    IN  IF got = None THEN Ret(Some(0), self, ind)
        ELSE Via(self, ind, FunVecD1_val_at(got[1].ref, ind.t1))
MapValD2_Vec_get_val_by_key(self, ind) ==
    LET got == slice_get(self.data, ind.t0)
    IN  Via(self, ind, and_then(got, FunVecD1_val_at(got[1].ref, ind.t1)))
MapValD2_Array_get_val_by_key(self, ind) ==
    LET got == slice_get(self.data, ind.t0)
    IN  Via(self, ind, and_then(got, FunVecD1_val_at(got[1].ref, ind.t1)))
MapValD2_HashMap_get_val_by_key(self, ind) ==
    LET got == map_get(self.data, ind.t0)
    IN  Via(self, ind, and_then(got, FunVecD1_val_at(got[1].ref, ind.t1)))
MapValD2_BTreeMap_get_val_by_key(self, ind) ==
    LET got == map_get(self.data, ind.t0)
    IN  Via(self, ind, and_then(got, FunVecD1_val_at(got[1].ref, ind.t1)))
MapValD2_IndexMap_get_val_by_key(self, ind) ==
    LET got == map_get(self.data, ind.t0)
    IN  Via(self, ind, and_then(got, FunVecD1_val_at(got[1].ref, ind.t1)))

\* scalar_asvec.rs: struct Scalar<T>(Option<T>) with Scalar::new, Scalar::none and From<T>
Scalar_new(value) == [kind |-> "Scalar", dim |-> 0, data |-> Some(value)]
Scalar_none == [kind |-> "Scalar", dim |-> 0, data |-> None]
Scalar_from(value) == Scalar_new(value)
\* MapValD2 for Scalar<T>: self.0, whatever the pair
MapValD2_Scalar_get_val_by_key_Bounded(self, ind) ==
    Ret(IF ind.t0 > MaxIdx THEN None ELSE self.data, self, ind)
MapValD2_Scalar_get_val_by_key(self, ind) == Ret(self.data, self, ind)

\* MapValD2::get_val_by_key: the implementation selected for the type of self
get_val_by_key(self, ind) ==
    CASE self.kind = "Scalar" -> MapValD2_Scalar_get_val_by_key(self, ind)
      [] self.kind = "Vec" -> MapValD2_Vec_get_val_by_key(self, ind)
      [] self.kind = "Array" -> MapValD2_Array_get_val_by_key(self, ind)
      [] self.kind = "HashMap" -> MapValD2_HashMap_get_val_by_key(self, ind)
      [] self.kind = "BTreeMap" -> MapValD2_BTreeMap_get_val_by_key(self, ind)
      [] self.kind = "IndexMap" -> MapValD2_IndexMap_get_val_by_key(self, ind)

\* FunVecD2::val_at of the blanket implementation for every MapValD2
FunVecD2_val_at(self, i, j) == get_val_by_key(self, Tuple2(i, j))

\* ------------------------------------------------------------------ impl_dim3 (FunVecD3, MapValD3)
\* MapValD3 for Scalar<T>: self.0, whatever the triple
MapValD3_Scalar_get_val_by_key(self, ind) == Ret(self.data, self, ind)
\* MapValD3::get_val_by_key: the implementation selected for the type of self
get_val_by_key_d3(self, ind) ==
    CASE self.kind = "Scalar" -> MapValD3_Scalar_get_val_by_key(self, ind)
\* FunVecD3::at of the blanket implementation for every MapValD3
FunVecD3_at(self, i, j, k) == get_val_by_key_d3(self, Tuple3(i, j, k))

\* ------------------------------------------------------------------ d3/std.rs
D3_Vec_at_Swapped(self, idx) ==
    LET ijk == into_index(idx)
        i == ijk[1]
        j == ijk[2]
        k == ijk[3]
        got == slice_get(self.data, i)
    IN  Via(self, idx, and_then(got, at(got[1].ref, Array(<<k, j>>))))
D3_Vec_at(self, idx) ==
    LET ijk == into_index(idx)
        i == ijk[1]
        j == ijk[2]
        k == ijk[3]
        got == slice_get(self.data, i)
    IN  Via(self, idx, and_then(got, at(got[1].ref, Array(<<j, k>>))))
D3_Array_at(self, idx) ==
    LET ijk == into_index(idx)
        i == ijk[1]
        j == ijk[2]
        k == ijk[3]
        got == slice_get(self.data, i)
    IN  Via(self, idx, and_then(got, at(got[1].ref, Array(<<j, k>>))))
D3_HashMap_at(self, idx) ==
    LET ijk == into_index(idx)
        i == ijk[1]
        j == ijk[2]
        k == ijk[3]
        got == map_get(self.data, i)
    IN  Via(self, idx, and_then(got, at(got[1].ref, Array(<<j, k>>))))
D3_BTreeMap_at(self, idx) ==
    LET ijk == into_index(idx)
        i == ijk[1]
        j == ijk[2]
        k == ijk[3]
        got == map_get(self.data, i)
    IN  Via(self, idx, and_then(got, at(got[1].ref, Array(<<j, k>>))))
D3_Vec_ref_at(self, idx) ==
    LET ijk == into_index(idx)
        i == ijk[1]
        j == ijk[2]
        k == ijk[3]
        got == slice_get(self.data, i)
    IN  Via(self, idx, and_then(got, ref_at(got[1].ref, Array(<<j, k>>))))
D3_Array_ref_at(self, idx) ==
    LET ijk == into_index(idx)
        i == ijk[1]
        j == ijk[2]
        k == ijk[3]
        got == slice_get(self.data, i)
    IN  Via(self, idx, and_then(got, ref_at(got[1].ref, Array(<<j, k>>))))
D3_HashMap_ref_at(self, idx) ==
    LET ijk == into_index(idx)
        i == ijk[1]
        j == ijk[2]
        k == ijk[3]
        got == map_get(self.data, i)
    IN  Via(self, idx, and_then(got, ref_at(got[1].ref, Array(<<j, k>>))))
D3_BTreeMap_ref_at(self, idx) ==
    LET ijk == into_index(idx)
        i == ijk[1]
        j == ijk[2]
        k == ijk[3]
        got == map_get(self.data, i)
    IN  Via(self, idx, and_then(got, ref_at(got[1].ref, Array(<<j, k>>))))

\* ------------------------------------------------------------------ d4/std.rs
D4_Vec_at_FirstOnMiss(self, idx) ==
    LET ijkl == into_index(idx)
        i == ijkl[1]
        j == ijkl[2]
        k == ijkl[3]
        l == ijkl[4]
        got == slice_get(self.data, i)
        x == IF got = None THEN slice_get(self.data, 0) ELSE got
        sub == and_then(x, at(x[1].ref, Array(<<j, k, l>>)))
    IN  Via(self, idx, IF got = None THEN [res |-> None, calls |-> sub.calls] ELSE sub)
D4_Vec_at(self, idx) ==
    LET ijkl == into_index(idx)
        i == ijkl[1]
        j == ijkl[2]
        k == ijkl[3]
        l == ijkl[4]
        got == slice_get(self.data, i)
    IN  Via(self, idx, and_then(got, at(got[1].ref, Array(<<j, k, l>>))))
D4_Array_at(self, idx) ==
    LET ijkl == into_index(idx)
        i == ijkl[1]
        j == ijkl[2]
        k == ijkl[3]
        l == ijkl[4]
        got == slice_get(self.data, i)
    IN  Via(self, idx, and_then(got, at(got[1].ref, Array(<<j, k, l>>))))
D4_HashMap_at(self, idx) ==
    LET ijkl == into_index(idx)
        i == ijkl[1]
        j == ijkl[2]
        k == ijkl[3]
        l == ijkl[4]
        got == map_get(self.data, i)
    IN  Via(self, idx, and_then(got, at(got[1].ref, Array(<<j, k, l>>))))
D4_BTreeMap_at(self, idx) ==
    LET ijkl == into_index(idx)
        i == ijkl[1]
        j == ijkl[2]
        k == ijkl[3]
        l == ijkl[4]
        got == map_get(self.data, i)
    IN  Via(self, idx, and_then(got, at(got[1].ref, Array(<<j, k, l>>))))
D4_Vec_ref_at(self, idx) ==
    LET ijkl == into_index(idx)
        i == ijkl[1]
        j == ijkl[2]
        k == ijkl[3]
        l == ijkl[4]
        got == slice_get(self.data, i)
    IN  Via(self, idx, and_then(got, ref_at(got[1].ref, Array(<<j, k, l>>))))
D4_Array_ref_at(self, idx) ==
    LET ijkl == into_index(idx)
        i == ijkl[1]
        j == ijkl[2]
        k == ijkl[3]
        l == ijkl[4]
        got == slice_get(self.data, i)
    IN  Via(self, idx, and_then(got, ref_at(got[1].ref, Array(<<j, k, l>>))))
D4_HashMap_ref_at(self, idx) ==
    LET ijkl == into_index(idx)
        i == ijkl[1]
        j == ijkl[2]
        k == ijkl[3]
        l == ijkl[4]
        got == map_get(self.data, i)
    IN  Via(self, idx, and_then(got, ref_at(got[1].ref, Array(<<j, k, l>>))))
D4_BTreeMap_ref_at(self, idx) ==
    LET ijkl == into_index(idx)
        i == ijkl[1]
        j == ijkl[2]
        k == ijkl[3]
        l == ijkl[4]
        got == map_get(self.data, i)
    IN  Via(self, idx, and_then(got, ref_at(got[1].ref, Array(<<j, k, l>>))))

\* ------------------------------------------------------------------ static dispatch
\* FunVec::at: the implementation the compiler selects for the type of self
at(self, idx) ==
    CASE self.kind = "ScalarAsVec" -> ScalarAsVec_at(self, idx)
      [] self.kind = "EmptyVec" -> EmptyVec_at(self, idx)
      [] self.kind = "Vec" /\ self.dim = 1 -> D1_Vec_at(self, idx)
      [] self.kind = "Array" /\ self.dim = 1 -> D1_Array_at(self, idx)
      [] self.kind = "HashMap" /\ self.dim = 1 -> DAny_HashMap_at(self, idx)
      [] self.kind = "BTreeMap" /\ self.dim = 1 -> DAny_BTreeMap_at(self, idx)
      [] self.kind = "IndexMap" /\ self.dim = 1 -> D1_IndexMap_at(self, idx)
      [] self.kind = "IndexMap" /\ self.dim = 2 -> D2_IndexMap_at(self, idx)
      [] self.kind = "SmallVec" /\ self.dim = 1 -> D1_SmallVec_at(self, idx)
      [] self.kind = "ndarray" /\ self.dim = 1 -> D1_NdArray_at(self, idx)
      [] self.kind = "ndarray" /\ self.dim = 2 -> D2_NdArray_at(self, idx)
      [] self.kind = "ndarray" /\ self.dim = 3 -> D3_NdArray_at(self, idx)
      [] self.kind = "ndarray" /\ self.dim = 4 -> D4_NdArray_at(self, idx)
      [] self.kind = "Closure" -> Closure_at(self, idx)
      [] self.kind = "ClosureOneOf2" -> ClosureOneOf2_at(self, idx)
      [] self.kind = "ClosureOneOf3" -> ClosureOneOf3_at(self, idx)
      [] self.kind = "ClosureOneOf4" -> ClosureOneOf4_at(self, idx)
      [] self.kind = "Box<dyn Fn>" -> BoxDynFn_at(self, idx)
      [] self.kind = "HashMap<Key>" -> DAny_HashMap_at(self, idx)
      [] self.kind = "BTreeMap<Key>" -> DAny_BTreeMap_at(self, idx)
      [] self.kind = "IndexMap<[usize; DIM]>" -> DAny_IndexMap_at(self, idx)
      [] self.kind = "SmallVec" /\ self.dim = 2 -> D2_SmallVec_at(self, idx)
      [] self.kind = "Vec" /\ self.dim = 3 -> D3_Vec_at(self, idx)
      [] self.kind = "Array" /\ self.dim = 3 -> D3_Array_at(self, idx)
      [] self.kind = "HashMap" /\ self.dim = 3 -> D3_HashMap_at(self, idx)
      [] self.kind = "BTreeMap" /\ self.dim = 3 -> D3_BTreeMap_at(self, idx)
      [] self.kind = "Vec" /\ self.dim = 4 -> D4_Vec_at(self, idx)
      [] self.kind = "Array" /\ self.dim = 4 -> D4_Array_at(self, idx)
      [] self.kind = "HashMap" /\ self.dim = 4 -> D4_HashMap_at(self, idx)
      [] self.kind = "BTreeMap" /\ self.dim = 4 -> D4_BTreeMap_at(self, idx)

\* FunVecRef::ref_at: the implementation the compiler selects for the type of self
ref_at(self, idx) ==
    CASE self.kind = "ScalarAsVec" -> ScalarAsVec_ref_at(self, idx)
      [] self.kind = "EmptyVec" -> EmptyVec_ref_at(self, idx)
      [] self.kind = "Vec" /\ self.dim = 1 -> D1_Vec_ref_at(self, idx)
      [] self.kind = "Array" /\ self.dim = 1 -> D1_Array_ref_at(self, idx)
      [] self.kind = "HashMap" /\ self.dim = 1 -> DAny_HashMap_ref_at(self, idx)
      [] self.kind = "BTreeMap" /\ self.dim = 1 -> DAny_BTreeMap_ref_at(self, idx)
      [] self.kind = "IndexMap" /\ self.dim = 1 -> D1_IndexMap_ref_at(self, idx)
      [] self.kind = "IndexMap" /\ self.dim = 2 -> D2_IndexMap_ref_at(self, idx)
      [] self.kind = "SmallVec" /\ self.dim = 1 -> D1_SmallVec_ref_at(self, idx)
      [] self.kind = "ndarray" /\ self.dim = 1 -> D1_NdArray_ref_at(self, idx)
      [] self.kind = "ndarray" /\ self.dim = 2 -> D2_NdArray_ref_at(self, idx)
      [] self.kind = "ndarray" /\ self.dim = 3 -> D3_NdArray_ref_at(self, idx)
      [] self.kind = "ndarray" /\ self.dim = 4 -> D4_NdArray_ref_at(self, idx)
      [] self.kind = "ClosureOptRef" -> ClosureOptRef_ref_at(self, idx)
      [] self.kind = "ClosureOptRefOneOf2" -> ClosureOptRefOneOf2_ref_at(self, idx)
      [] self.kind = "ClosureOptRefOneOf3" -> ClosureOptRefOneOf3_ref_at(self, idx)
      [] self.kind = "ClosureOptRefOneOf4" -> ClosureOptRefOneOf4_ref_at(self, idx)
      [] self.kind = "HashMap<Key>" -> DAny_HashMap_ref_at(self, idx)
      [] self.kind = "BTreeMap<Key>" -> DAny_BTreeMap_ref_at(self, idx)
      [] self.kind = "IndexMap<[usize; DIM]>" -> DAny_IndexMap_ref_at(self, idx)
      [] self.kind = "Vec" /\ self.dim = 3 -> D3_Vec_ref_at(self, idx)
      [] self.kind = "Array" /\ self.dim = 3 -> D3_Array_ref_at(self, idx)
      [] self.kind = "HashMap" /\ self.dim = 3 -> D3_HashMap_ref_at(self, idx)
      [] self.kind = "BTreeMap" /\ self.dim = 3 -> D3_BTreeMap_ref_at(self, idx)
      [] self.kind = "Vec" /\ self.dim = 4 -> D4_Vec_ref_at(self, idx)
      [] self.kind = "Array" /\ self.dim = 4 -> D4_Array_ref_at(self, idx)
      [] self.kind = "HashMap" /\ self.dim = 4 -> D4_HashMap_ref_at(self, idx)
      [] self.kind = "BTreeMap" /\ self.dim = 4 -> D4_BTreeMap_ref_at(self, idx)

\* ------------------------------------------------------------------ sources
\* The sources the caller builds.  The element stored along the path (i, j, k, l)
\* of a nested source is b + 1000 i + 100 j + 10 k + l read from the innermost
\* component outwards, so every stored element names its own position.
DenseKinds == {"Vec", "Array"}
MapKinds == {"HashMap", "BTreeMap", "IndexMap"}
StdMapKinds == {"HashMap", "BTreeMap"}
ScalarValues == {12, 42}

\* vec![b, b + 1, ...] or [b, b + 1, ...; n]
MkDense1(kd, n, b) == [kind |-> kd, dim |-> 1, data |-> [p \in 1..n |-> b + (p - 1)]]
\* a map from_iter([(k, b + k) for k in K])
MkMap1(kd, K, b) == [kind |-> kd, dim |-> 1, data |-> [k \in K |-> b + k]]
\* smallvec![b, b + 1, ...] of n elements as SmallVec<[T; c]>: data is the slice of
\* the elements held, in the inline array while n <= c and on the heap beyond
MkSmallVec1(c, n, b) ==
    [kind |-> "SmallVec", dim |-> 1, capacity |-> c, data |-> [p \in 1..n |-> b + (p - 1)]]
MkScalar(v) == [kind |-> "ScalarAsVec", dim |-> 0, data |-> v]
MkEmpty == [kind |-> "EmptyVec", dim |-> 0, data |-> <<>>]

\* key sets of the outer maps of nested sources: empty, or all keys but one
NestedKeySets == {{}} \cup {{k \in 0..MaxIdx : k # h} : h \in 0..MaxIdx}
\* the shapes of the 2-dimensional sub-sources
SubShapes ==
    [sub : {"IndexMap"}, keys : NestedKeySets, len : 0..MaxLen]
        \cup [sub : {"ScalarAsVec", "EmptyVec"}, keys : {{}}, len : {0}]
\* the extents of an outer container: a length for a dense one, a key set for a map
Extents(kd) == IF kd \in DenseKinds THEN 0..MaxLen ELSE NestedKeySets

\* the rows of a jagged IndexMap<usize, Vec<T>>: the length of the row under key k
RowLen(len, k) == (len + k) % (MaxLen + 1)
MkSub2(sh, b) ==
    CASE sh.sub = "IndexMap" ->
            [kind |-> "IndexMap", dim |-> 2,
             data |-> [k \in sh.keys |-> MkDense1("Vec", RowLen(sh.len, k), b + 10 * k)]]
      [] sh.sub = "ScalarAsVec" -> MkScalar(b)
      [] sh.sub = "EmptyVec" -> MkEmpty

\* the sub-source of an outer container of dimension dm under its component i
MkElem(dm, i, sh, b) ==
    IF dm = 3 THEN MkSub2(sh, b + 100 * i)
    ELSE IF sh.sub = "IndexMap"
         THEN [kind |-> "Vec", dim |-> 3,
               data |-> [p \in 1..sh.len |-> MkSub2(sh, b + 1000 * i + 100 * (p - 1))]]
         ELSE MkSub2(sh, b + 1000 * i)
\* an outer Vec, array, HashMap or BTreeMap of dimension dm and extent ext
MkNested(kd, dm, ext, sh, b) ==
    IF kd \in DenseKinds
    THEN [kind |-> kd, dim |-> dm, data |-> [p \in 1..ext |-> MkElem(dm, p - 1, sh, b)]]
    ELSE [kind |-> kd, dim |-> dm, data |-> [k \in ext |-> MkElem(dm, k, sh, b)]]
MkNested3(kd, ext, sh, b) == MkNested(kd, 3, ext, sh, b)
MkNested4(kd, ext, sh, b) == MkNested(kd, 4, ext, sh, b)

\* 2-dimensional sources of two container families.  The kinds that hold their
\* elements by position:
SeqKinds == DenseKinds \cup {"SmallVec"}
\* the key sets of the rows of a sequence of maps, row by row
RowKeySets == UNION {[1..n -> NestedKeySets] : n \in 0..MaxLen}
\* a sequence (Vec, array, SmallVec) of maps: vec![HashMap::from_iter(..), ..]
MkSeqOfMaps(kd, kdin, rows, b) ==
    [kind |-> kd, dim |-> 2,
     data |-> [p \in 1..Len(rows) |-> MkMap1(kdin, rows[p], b + 10 * (p - 1))]]
\* a map of sequences: BTreeMap::from_iter([(0, vec![..]), ..]), rows of unequal length
MkMapOfSeqs(kd, kdin, K, len, b) ==
    [kind |-> kd, dim |-> 2,
     data |-> [k \in K |-> MkDense1(kdin, RowLen(len, k), b + 10 * k)]]

\* the number that a stored element reached along the components c carries
RECURSIVE PathCode(_)
PathCode(c) == IF c = <<>> THEN 0 ELSE 10 * PathCode(SubSeq(c, 1, Len(c) - 1)) + c[Len(c)]

\* ndarray sources.  The index whose element lies at place o of the buffer:
RECURSIVE Unravel(_, _)
Unravel(sh, o) ==
    IF sh = <<>> THEN <<>>
    ELSE <<o \div Product(Tail(sh))>> \o Unravel(Tail(sh), o % Product(Tail(sh)))
\* Array::from_shape_fn(sh, |c| b + code of c)
MkNdArray(sh, b) ==
    [kind |-> "ndarray", dim |-> Len(sh), shape |-> sh,
     data |-> [q \in 1..Product(sh) |-> b + PathCode(Unravel(sh, q - 1))]]
\* the extents of an axis: none, one, MaxLen
AxisExtents == {0, 1, MaxLen}

\* Maps keyed by the whole coordinate.  The key the caller writes for the
\* components c, and the components of a key:
TupleShape(dm) ==
    CASE dm = 1 -> "usize" [] dm = 2 -> "tuple2" [] dm = 3 -> "tuple3" [] dm = 4 -> "tuple4"
MkKey(shape, c) ==
    CASE shape = "usize" -> c[1]
      [] shape = "tuple2" -> [shape |-> "tuple2", t0 |-> c[1], t1 |-> c[2]]
      [] shape = "tuple3" -> [shape |-> "tuple3", t0 |-> c[1], t1 |-> c[2], t2 |-> c[3]]
      [] shape = "tuple4" -> [shape |-> "tuple4", t0 |-> c[1], t1 |-> c[2], t2 |-> c[3], t3 |-> c[4]]
      [] shape = "array" -> c
KeyComponents(shape, k) ==
    CASE shape = "usize" -> <<k>>
      [] shape = "tuple2" -> <<k.t0, k.t1>>
      [] shape = "tuple3" -> <<k.t0, k.t1, k.t2>>
      [] shape = "tuple4" -> <<k.t0, k.t1, k.t2, k.t3>>
      [] shape = "array" -> k
\* the coordinates a map holds: none, those whose components never decrease (so
\* (0, 1) is held and (1, 0) is not), or those of first component 0
KeyedCoordSets(dm) ==
    LET all == [1..dm -> 0..MaxIdx]
    IN  {{}, {c \in all : \A p \in 1..dm - 1 : c[p] <= c[p + 1]}, {c \in all : c[1] = 0}}
\* HashMap::from_iter([((0, 1), v), ..]): the value under a key names the key
MkKeyed(kd, shape, dm, K, b) ==
    [kind |-> kd, dim |-> dm, key |-> shape,
     data |-> [k \in {MkKey(shape, c) : c \in K} |-> b + PathCode(KeyComponents(shape, k))]]

\* Capture(table).fun(|table, input: In| table.get(&input).copied()), and the
\* same function boxed
MkCallable(kd, shape, dm, K, b) ==
    [kind |-> kd, dim |-> dm, In |-> shape,
     data |-> [k \in {MkKey(shape, c) : c \in K} |-> b + PathCode(KeyComponents(shape, k))]]

\* ------------------------------------------------------------------ index arguments
Comps == 0..MaxIdx
WideComps == Comps \cup {LargeIdx}
\* the index arguments of dimension d a caller can write, over components C
IdxArgs(d, C) ==
    CASE d = 1 -> {Usize(i) : i \in C} \cup {Array(<<i>>) : i \in C}
      [] d = 2 -> {Tuple2(i, j) : i \in C, j \in C} \cup {Array(<<i, j>>) : i \in C, j \in C}
      [] d = 3 -> {Tuple3(i, j, k) : i \in C, j \in C, k \in C}
                    \cup {Array(<<i, j, k>>) : i \in C, j \in C, k \in C}
      [] d = 4 -> {Tuple4(i, j, k, l) : i \in C, j \in C, k \in C, l \in C}
                    \cup {Array(<<i, j, k, l>>) : i \in C, j \in C, k \in C, l \in C}

\* index arguments of dimension d = 3, 4 far outside every populated domain: LargeIdx
\* in one component and 0 in the others, or LargeIdx in all of them
FarArgs(d) ==
    LET far == {[p \in 1..d |-> IF p = q THEN LargeIdx ELSE 0] : q \in 1..d}
                  \cup {[p \in 1..d |-> LargeIdx]}
    IN  {IF d = 3 THEN Tuple3(c[1], c[2], c[3]) ELSE Tuple4(c[1], c[2], c[3], c[4]) : c \in far}
            \cup {Array(c) : c \in far}

IsScalarKind(s) == s.kind \in {"ScalarAsVec", "EmptyVec"}

\* ------------------------------------------------------------------ direct calls
NoResult == [res |-> None, calls |-> <<>>]

\* the iterator part of the state while no iterator exists
NoIterator ==
    /\ indices = <<>>
    /\ kind = "none"
    /\ indices_iter = <<>>
    /\ lookups = <<>>
    /\ yielded = <<>>
    /\ ends = 0

PickD1 ==
    \/ \E kd \in DenseKinds, n \in 0..MaxLen : source = MkDense1(kd, n, 10)
    \/ \E kd \in MapKinds, K \in SUBSET Comps : source = MkMap1(kd, K, 10)
\* SmallVec<[T; c]> of up to MaxLen + 1 elements, within the inline capacity or spilled
PickSmallVec1 ==
    \E c \in 1..MaxLen, n \in 0..MaxLen + 1 : source = MkSmallVec1(c, n, 10)
\* Array1 .. Array4 of every shape over the extents
PickNdArray ==
    \E d \in 1..4 : \E sh \in [1..d -> AxisExtents] : source = MkNdArray(sh, 0)
PickScalar ==
    \/ \E v \in ScalarValues : source = MkScalar(v)
    \/ source = MkEmpty
\* the sources of two container families the current contract is implemented for
PickMixed2 ==
    \E kdin \in MapKinds, rows \in RowKeySets : source = MkSeqOfMaps("SmallVec", kdin, rows, 0)
\* the sources of two container families of the earlier contract FunVecD2
PickLegacy2 ==
    \/ \E kd \in DenseKinds, kdin \in MapKinds, rows \in RowKeySets :
            source = MkSeqOfMaps(kd, kdin, rows, 0)
    \/ \E kd \in MapKinds, kdin \in DenseKinds, K \in NestedKeySets, len \in 0..MaxLen :
            source = MkMapOfSeqs(kd, kdin, K, len, 0)
\* the Scalar wrapper of the earlier contracts
PickLegacyScalar ==
    \/ \E v \in ScalarValues : source = Scalar_new(v)
    \/ \E v \in ScalarValues : source = Scalar_from(v)
    \/ source = Scalar_none
\* maps keyed by tuples, maps keyed by arrays
PickKeyed ==
    \/ \E kd \in {"HashMap<Key>", "BTreeMap<Key>"}, dm \in 2..4 : \E K \in KeyedCoordSets(dm) :
            source = MkKeyed(kd, TupleShape(dm), dm, K, 0)
    \/ \E kd \in KeyedKinds, dm \in 1..4 : \E K \in KeyedCoordSets(dm) :
            source = MkKeyed(kd, "array", dm, K, 0)
\* callables over a bare index, over tuples and over arrays
PickCallable ==
    \/ \E kd \in CallableKinds, dm \in 1..4 : \E K \in KeyedCoordSets(dm) :
            source = MkCallable(kd, TupleShape(dm), dm, K, 0)
    \/ \E kd \in CallableKinds, dm \in 1..2 : \E K \in KeyedCoordSets(dm) :
            source = MkCallable(kd, "array", dm, K, 0)
PickNested ==
    \/ \E sh \in SubShapes : sh.sub = "IndexMap" /\ source = MkSub2(sh, 0)
    \/ \E kd \in DenseKinds \cup StdMapKinds : \E ext \in Extents(kd), sh \in SubShapes :
            source = MkNested3(kd, ext, sh, 0)
    \/ \E kd \in DenseKinds \cup StdMapKinds : \E ext \in Extents(kd), sh \in SubShapes :
            source = MkNested4(kd, ext, sh, 0)

\* The caller has built a source and has made no call yet.  at and ref_at take
\* &self and write nothing, so a call leaves nothing behind for a later call to
\* read: one call per behaviour reaches every (source, index, result) there is.
InitAt ==
    /\ \/ (PickD1 \/ PickSmallVec1 \/ PickNdArray \/ PickScalar \/ PickNested \/ PickMixed2 \/ PickKeyed \/ PickCallable)
            /\ pc = "direct"
       \/ (PickLegacy2 \/ PickLegacyScalar) /\ pc = "legacy"
    /\ NoIterator
    /\ op = "none"
    /\ index = <<>>
    /\ result = NoResult
    /\ iters = <<>>

\* the index arguments the type of the source accepts: ScalarAsVec and EmptyVec
\* implement the contracts for every DIM, the others for their own dimension
ArgsFor(s) ==
    IF IsScalarKind(s)
    THEN IdxArgs(1, WideComps) \cup IdxArgs(2, WideComps) \cup IdxArgs(3, WideComps)
            \cup IdxArgs(4, WideComps)
    ELSE IF s.dim <= 2 THEN IdxArgs(s.dim, WideComps)
    ELSE IdxArgs(s.dim, Comps) \cup FarArgs(s.dim)

\* the types FunVec and FunVecRef are implemented for
ImplementsFunVec(s) == s.kind \notin RefCallableKinds
ImplementsFunVecRef(s) == s.kind \notin ValueCallableKinds /\ ~(s.kind = "SmallVec" /\ s.dim = 2)

\* source.at(idx)
CallAt ==
    /\ pc = "direct"
    /\ op = "none"
    /\ ImplementsFunVec(source)
    /\ \E idx \in ArgsFor(source) :
          /\ op' = "at"
          /\ index' = idx
          /\ result' = at(source, idx)
    /\ UNCHANGED <<source, indices, pc, kind, indices_iter, lookups, yielded, ends, iters>>

\* source.ref_at(idx)
CallRefAt ==
    /\ pc = "direct"
    /\ op = "none"
    /\ ImplementsFunVecRef(source)
    /\ \E idx \in ArgsFor(source) :
          /\ op' = "ref_at"
          /\ index' = idx
          /\ result' = ref_at(source, idx)
    /\ UNCHANGED <<source, indices, pc, kind, indices_iter, lookups, yielded, ends, iters>>

\* source.val_at(i, j) through the earlier contract FunVecD2
CallValAt ==
    /\ pc = "legacy"
    /\ op = "none"
    /\ \E i \in WideComps, j \in WideComps :
          /\ op' = "val_at"
          /\ index' = Tuple2(i, j)
          /\ result' = FunVecD2_val_at(source, i, j)
    /\ UNCHANGED <<source, indices, pc, kind, indices_iter, lookups, yielded, ends, iters>>

\* source.at(i, j, k) through the earlier contract FunVecD3
ImplementsFunVecD3(s) == s.kind = "Scalar"
CallAtD3 ==
    /\ pc = "legacy" /\ ImplementsFunVecD3(source)
    /\ op = "none"
    /\ \E i \in WideComps, j \in WideComps, k \in WideComps :
          /\ op' = "FunVecD3::at"
          /\ index' = Tuple3(i, j, k)
          /\ result' = FunVecD3_at(source, i, j, k)
    /\ UNCHANGED <<source, indices, pc, kind, indices_iter, lookups, yielded, ends, iters>>

NextAt == CallAt \/ CallRefAt \/ CallValAt \/ CallAtD3

SpecAt == InitAt /\ [][NextAt]_vars

\* ------------------------------------------------------------------ index conversions
\* A caller converting indices by hand.  A value carries its static type as its
\* shape: Typed gives the value from_index returns the shape it was asked for.
Typed(shape, v) ==
    CASE shape = "usize" -> Usize(v)
      [] shape = "array" -> Array(v)
      [] OTHER -> v
\* the types implementing IntoIndex<d> and FromIndex<d>
ShapesOf(d) == {TupleShape(d), "array"}
\* the value the next conversion applies to
Current == IF op = "none" THEN index ELSE result.res
\* one conversion applied to the value x
Conversion(name, x) == [kind |-> name, dim |-> Len(into_index(x)), index |-> x]

\* the caller holds a value x: a bare index, a tuple or an array of 1 to 4 components
InitIndex ==
    /\ \E d \in 1..4 : index \in IdxArgs(d, WideComps)
    /\ source = MkEmpty
    /\ pc = "convert"
    /\ NoIterator
    /\ op = "none"
    /\ result = NoResult
    /\ iters = <<>>

\* let a = x.into_index()
ConvertInto ==
    /\ pc = "convert"
    /\ Len(result.calls) < MaxConv
    /\ op' = "into_index"
    /\ result' = [res |-> Array(into_index(Current)),
                  calls |-> Append(result.calls, Conversion("into_index", Current))]
    /\ UNCHANGED <<source, indices, pc, kind, indices_iter, lookups, yielded, ends, index, iters>>

\* let y = S::from_index(a) for a canonical index a and a type S: FromIndex<d>
ConvertFrom ==
    /\ pc = "convert"
    /\ Len(result.calls) < MaxConv
    /\ Current.shape = "array"
    /\ \E S \in ShapesOf(Len(Current.a)) :
          result' = [res |-> Typed(S, from_index(S, Current.a)),
                     calls |-> Append(result.calls, Conversion("from_index", Current))]
    /\ op' = "from_index"
    /\ UNCHANGED <<source, indices, pc, kind, indices_iter, lookups, yielded, ends, index, iters>>

NextIndex == ConvertInto \/ ConvertFrom

SpecIndex == InitIndex /\ [][NextIndex]_vars

\* ------------------------------------------------------------------ query iterators
\* An index iterator IdxIter is the script of what its next() answers, call by
\* call: Some(index) or None.  Once the script is used up it answers None for
\* ever.  Rust lets an Iterator answer Some again after a None, and the bound
\* IdxIter: Iterator<Item = Idx> asks for nothing more, so a script may hold a
\* None before a Some.  A script never ends in None: that None is implied.
Answers == {None} \cup {Some(Usize(i)) : i \in Comps}
RECURSIVE SeqsUpTo(_, _)
SeqsUpTo(S, n) ==
    IF n = 0 THEN {<<>>}
    ELSE LET shorter == SeqsUpTo(S, n - 1)
         IN  shorter \cup {Append(q, a) : q \in shorter, a \in S}
Scripts == {q \in SeqsUpTo(Answers, MaxSeq) : q = <<>> \/ q[Len(q)] # None}

\* IdxIter::next
IdxIter_next(it) ==
    IF it = <<>> THEN [item |-> None, rest |-> <<>>] ELSE [item |-> Head(it), rest |-> Tail(it)]

\* IterOverValues::new and IterOverRefs::new (derive_new): store the two fields
IterOverValues_new_Eager(value, idxs) ==
    LET r == IdxIter_next(idxs)
    IN  [value |-> value, indices_iter |-> r.rest,
         calls |-> IF r.item = None THEN <<>> ELSE at(value, r.item[1]).calls]
IterOverValues_new(value, idxs) == [value |-> value, indices_iter |-> idxs, calls |-> <<>>]
IterOverRefs_new(value, idxs) == [value |-> value, indices_iter |-> idxs, calls |-> <<>>]

\* FunVec::iter_over and FunVecRef::ref_iter_over
iter_over(self, idxs) == IterOverValues_new(self, idxs)
ref_iter_over(self, idxs) == IterOverRefs_new(self, idxs)

\* self.indices_iter.next().map(|i| self.value.at(i)): the item returned, the
\* index iterator afterwards and the lookups made
Pulled(r, m) ==
    [item |-> IF m = None THEN None ELSE Some(m[1].res),
     indices_iter |-> r.rest,
     calls |-> IF m = None THEN <<>> ELSE m[1].calls]
IterOverValues_next_Back(value, it) ==
    LET r == IF it = <<>> THEN [item |-> None, rest |-> <<>>]
             ELSE [item |-> it[Len(it)], rest |-> SubSeq(it, 1, Len(it) - 1)]
    IN  Pulled(r, map(r.item, at(value, r.item[1])))
IterOverValues_next_Rewind(value, it) ==
    LET r == IdxIter_next(it)
        p == Pulled(r, map(r.item, at(value, r.item[1])))
    IN  IF r.item = None THEN [p EXCEPT !.indices_iter = <<Some(Usize(0))>>] ELSE p
IterOverValues_next_StopAtAbsent(value, it) ==
    LET r == IdxIter_next(it)
        p == Pulled(r, map(r.item, at(value, r.item[1])))
    IN  IF p.item = Some(None) THEN [p EXCEPT !.item = None] ELSE p
IterOverValues_next_Shifted(value, it) ==
    LET r == IdxIter_next(it)
    IN  Pulled(r, map(r.item, at(value, Usize(r.item[1].i0 + 1))))
IterOverValues_next_LookupFirst(value, it) ==
    LET r == IdxIter_next(it)
        first == at(value, Usize(0))
        p == Pulled(r, map(r.item, at(value, r.item[1])))
    IN  [p EXCEPT !.calls = first.calls \o p.calls]
IterOverValues_next(value, it) ==
    LET r == IdxIter_next(it)
    IN  Pulled(r, map(r.item, at(value, r.item[1])))
IterOverRefs_next_Twice(value, it) ==
    LET r == IdxIter_next(it)
        p == Pulled(r, map(r.item, ref_at(value, r.item[1])))
    IN  [p EXCEPT !.calls = p.calls \o p.calls]
IterOverRefs_next_SkipOne(value, it) ==
    LET r == IdxIter_next(IdxIter_next(it).rest)
    IN  Pulled(r, map(r.item, ref_at(value, r.item[1])))
IterOverRefs_next(value, it) ==
    LET r == IdxIter_next(it)
    IN  Pulled(r, map(r.item, ref_at(value, r.item[1])))

PickIterSource ==
    \/ \E n \in 0..MaxLen : source = MkDense1("Vec", n, 10)
    \/ \E K \in NestedKeySets : source = MkMap1("HashMap", K, 10)
    \/ source = MkScalar(42)
    \/ source = MkEmpty

\* the caller owns a source and an index iterator and has created no iterator yet
Init ==
    /\ PickIterSource
    /\ indices \in Scripts
    /\ pc = "init"
    /\ kind = "none"
    /\ indices_iter = <<>>
    /\ lookups = <<>>
    /\ yielded = <<>>
    /\ ends = 0
    /\ op = "none"
    /\ index = <<>>
    /\ result = NoResult
    /\ iters = <<>>

\* let it = source.iter_over(indices)
IterOver ==
    /\ pc = "init"
    /\ LET it == iter_over(source, indices)
       IN  /\ indices_iter' = it.indices_iter
           /\ lookups' = lookups \o it.calls
    /\ kind' = "val"
    /\ pc' = "active"
    /\ UNCHANGED <<source, indices, yielded, ends, op, index, result, iters>>

\* let it = source.ref_iter_over(indices)
RefIterOver ==
    /\ pc = "init"
    /\ LET it == ref_iter_over(source, indices)
       IN  /\ indices_iter' = it.indices_iter
           /\ lookups' = lookups \o it.calls
    /\ kind' = "ref"
    /\ pc' = "active"
    /\ UNCHANGED <<source, indices, yielded, ends, op, index, result, iters>>

\* what a pull that returned p leaves behind
AfterPull(p) ==
    /\ indices_iter' = p.indices_iter
    /\ lookups' = lookups \o p.calls
    /\ yielded' = IF p.item = None THEN yielded ELSE Append(yielded, p.item[1])
    /\ ends' = IF p.item = None THEN ends + 1 ELSE ends
    /\ UNCHANGED <<source, indices, pc, kind, op, index, result, iters>>

\* it.next() on an IterOverValues; the caller gives up after MaxEnds pulls that returned None
NextVal ==
    /\ pc = "active" /\ kind = "val" /\ ends < MaxEnds
    /\ AfterPull(IterOverValues_next(source, indices_iter))

\* it.next() on an IterOverRefs
NextRef ==
    /\ pc = "active" /\ kind = "ref" /\ ends < MaxEnds
    /\ AfterPull(IterOverRefs_next(source, indices_iter))

\* drop(it): neither iterator implements Drop, the fields are released and nothing runs
Drop ==
    /\ pc = "active"
    /\ pc' = "dropped"
    /\ UNCHANGED <<source, indices, kind, indices_iter, lookups, yielded, ends, op, index, result, iters>>

Next == IterOver \/ RefIterOver \/ NextVal \/ NextRef \/ Drop

Spec == Init /\ [][Next]_vars

\* A caller that keeps pulling: collect, sum and for loops call next() until it
\* returns None, unless the iterator is dropped first.
SpecPulling == Spec /\ WF_vars(NextVal) /\ WF_vars(NextRef)

\* ------------------------------------------------- iterators side by side
\* Several iterators borrow the one source at once (iter_over and ref_iter_over
\* take &self), and the caller calls at and ref_at in between.
\*
\* What a source lent as &self holds when the borrow ends: Vec, arrays, the maps,
\* ScalarAsVec and EmptyVec have no interior mutability, a shared borrow writes nothing.
Lent_Drained(self) ==
    IF self.kind \in {"ScalarAsVec", "EmptyVec"} THEN self ELSE [self EXCEPT !.data = <<>>]
Lent(self) == self

\* the iterators the caller holds side by side
Iterators == 1..2
NotCreated ==
    [pc |-> "init", kind |-> "none", indices |-> <<>>, indices_iter |-> <<>>,
     yielded |-> <<>>, ends |-> 0]

\* the coordinate of a source for the number k
Coord(s, k) == IF s.dim = 2 THEN Tuple2(k, 0) ELSE Usize(k)
\* the ranges a..b and (a..b).rev() as index iterators
Span(s, a, b) == [p \in 1..(b - a) |-> Some(Coord(s, a + p - 1))]
rev(q) == [p \in 1..Len(q) |-> q[Len(q) + 1 - p]]
\* the first iterator runs over a range a..b or its reverse, the others over 0..b
Ranges(s, n) ==
    LET up == {Span(s, a, b) : a \in 0..MaxIdx, b \in 0..MaxIdx + 1}
    IN  IF n = 1 THEN up \cup {rev(q) : q \in up}
        ELSE {Span(s, 0, b) : b \in 0..MaxIdx + 1}

PickShared ==
    \/ source = MkDense1("Vec", MaxLen, 10)
    \/ source = MkMap1("HashMap", {0, MaxIdx}, 10)
    \/ source = MkScalar(42)
    \/ source = MkEmpty
    \/ source = MkSub2([sub |-> "IndexMap", keys |-> {0, MaxIdx}, len |-> MaxLen], 0)

InitShared ==
    /\ PickShared
    /\ pc = "shared"
    /\ NoIterator
    /\ op = "none"
    /\ index = <<>>
    /\ result = NoResult
    /\ iters = [n \in Iterators |-> NotCreated]

\* the iterators after a pull of the n-th gave p: next takes &mut self of that
\* iterator, its cursor is its own field
Advance_SharedCursor(its, n, p) ==
    [m \in DOMAIN its |->
        IF m = n
        THEN [its[m] EXCEPT !.indices_iter = p.indices_iter,
                            !.yielded = IF p.item = None THEN @ ELSE Append(@, p.item[1]),
                            !.ends = IF p.item = None THEN @ + 1 ELSE @]
        ELSE IF its[m].pc = "active" THEN [its[m] EXCEPT !.indices_iter = p.indices_iter]
        ELSE its[m]]
Advance(its, n, p) ==
    [its EXCEPT ![n] = [@ EXCEPT !.indices_iter = p.indices_iter,
                                 !.yielded = IF p.item = None THEN @ ELSE Append(@, p.item[1]),
                                 !.ends = IF p.item = None THEN @ + 1 ELSE @]]

\* let it_n = source.iter_over(a..b)
SharedIterOver(n) ==
    /\ pc = "shared" /\ iters[n].pc = "init" /\ ImplementsFunVec(source)
    /\ \E idxs \in Ranges(source, n) :
          iters' = [iters EXCEPT ![n] =
                        [pc |-> "active", kind |-> "val", indices |-> idxs,
                         indices_iter |-> iter_over(source, idxs).indices_iter,
                         yielded |-> <<>>, ends |-> 0]]
    /\ source' = Lent(source)
    /\ UNCHANGED <<indices, pc, kind, indices_iter, lookups, yielded, ends, op, index, result>>

\* let it_n = source.ref_iter_over(a..b)
SharedRefIterOver(n) ==
    /\ pc = "shared" /\ iters[n].pc = "init" /\ ImplementsFunVecRef(source)
    /\ \E idxs \in Ranges(source, n) :
          iters' = [iters EXCEPT ![n] =
                        [pc |-> "active", kind |-> "ref", indices |-> idxs,
                         indices_iter |-> ref_iter_over(source, idxs).indices_iter,
                         yielded |-> <<>>, ends |-> 0]]
    /\ source' = Lent(source)
    /\ UNCHANGED <<indices, pc, kind, indices_iter, lookups, yielded, ends, op, index, result>>

\* it_n.next() on an IterOverValues; the caller pulls until it reports the end
SharedNextVal(n) ==
    /\ pc = "shared" /\ iters[n].pc = "active" /\ iters[n].kind = "val"
    /\ iters[n].ends = 0
    /\ iters' = Advance(iters, n, IterOverValues_next(source, iters[n].indices_iter))
    /\ source' = Lent(source)
    /\ UNCHANGED <<indices, pc, kind, indices_iter, lookups, yielded, ends, op, index, result>>

\* it_n.next() on an IterOverRefs
SharedNextRef(n) ==
    /\ pc = "shared" /\ iters[n].pc = "active" /\ iters[n].kind = "ref"
    /\ iters[n].ends = 0
    /\ iters' = Advance(iters, n, IterOverRefs_next(source, iters[n].indices_iter))
    /\ source' = Lent(source)
    /\ UNCHANGED <<indices, pc, kind, indices_iter, lookups, yielded, ends, op, index, result>>

\* source.at(c) between the pulls
SharedAt ==
    /\ pc = "shared" /\ ImplementsFunVec(source)
    /\ \E k \in Comps :
          /\ op' = "at"
          /\ index' = Coord(source, k)
          /\ result' = at(source, Coord(source, k))
    /\ source' = Lent(source)
    /\ UNCHANGED <<indices, pc, kind, indices_iter, lookups, yielded, ends, iters>>

\* source.ref_at(c) between the pulls
SharedRefAt ==
    /\ pc = "shared" /\ ImplementsFunVecRef(source)
    /\ \E k \in Comps :
          /\ op' = "ref_at"
          /\ index' = Coord(source, k)
          /\ result' = ref_at(source, Coord(source, k))
    /\ source' = Lent(source)
    /\ UNCHANGED <<indices, pc, kind, indices_iter, lookups, yielded, ends, iters>>

NextShared ==
    \/ \E n \in Iterators : SharedIterOver(n)
    \/ \E n \in Iterators : SharedRefIterOver(n)
    \/ \E n \in Iterators : SharedNextVal(n)
    \/ \E n \in Iterators : SharedNextRef(n)
    \/ SharedAt
    \/ SharedRefAt

SpecShared == InitShared /\ [][NextShared]_vars

\* ------------------------------------------------- a caching user extension
\* The DistanceProvider of the documentation: a user type implementing FunVec<2, _>
\* whose at memoises what it computes in a RefCell<HashMap<(usize, usize), _>>.
\* distance takes &self and writes the cache through the RefCell, so the result
\* of a call carries the provider as the call leaves it.
\*
\* HashMap::insert
HashMap_insert(entries, k, v) ==
    [x \in DOMAIN entries \cup {k} |-> IF x = k THEN v ELSE entries[x]]
\* (n as f32).sqrt() as u32 for the small n of the model: the root rounded down
sqrt_as_u32(n) == CHOOSE r \in 0..n : r * r <= n /\ (r + 1) * (r + 1) > n
\* ((i32::pow(x1 - x2, 2) + i32::pow(y1 - y2, 2)) as f32).sqrt() as Dist
euclidean(l1, l2) ==
    sqrt_as_u32((l1[1] - l2[1]) * (l1[1] - l2[1]) + (l1[2] - l2[2]) * (l1[2] - l2[2]))

\* funvec_val.rs: distances of locations, the cache holds the distances computed
DistanceProvider_distance_KeyedByFrom(self, from, to) ==
    LET hit == map_get(self.cached, <<from, from>>)
        l1 == slice_get(self.locations, from)
        l2 == slice_get(self.locations, to)
    IN  IF hit # None THEN [res |-> Some(hit[1].ref), self |-> self]
        ELSE IF l1 # None /\ l2 # None
        THEN LET distance == euclidean(l1[1].ref, l2[1].ref)
             IN  [res |-> Some(distance),
                  self |-> [self EXCEPT
                              !.cached = HashMap_insert(@, <<from, from>>, distance)]]
        ELSE [res |-> None, self |-> self]
DistanceProvider_distance(self, from, to) ==
    LET hit == map_get(self.cached, <<from, to>>)
        l1 == slice_get(self.locations, from)
        l2 == slice_get(self.locations, to)
    IN  IF hit # None THEN [res |-> Some(hit[1].ref), self |-> self]
        ELSE IF l1 # None /\ l2 # None
        THEN LET distance == euclidean(l1[1].ref, l2[1].ref)
             IN  [res |-> Some(distance),
                  self |-> [self EXCEPT
                              !.cached = HashMap_insert(@, <<from, to>>, distance)]]
        ELSE [res |-> None, self |-> self]
DistanceProvider_at(self, idx) ==
    LET ft == into_index(idx)
        d == DistanceProvider_distance(self, ft[1], ft[2])
    IN  [res |-> d.res, calls |-> <<Call(self, idx)>>, self |-> d.self]

\* lib.rs: the cache holds Option<Unit>, the computation is a stub
GraphProvider_compute_shortest_distance(self, from, to) == Some(1)
GraphProvider_distance(self, from, to) ==
    LET hit == map_get(self.cached, <<from, to>>)
    IN  IF hit # None THEN [res |-> hit[1].ref, self |-> self]
        ELSE LET distance == GraphProvider_compute_shortest_distance(self, from, to)
             IN  [res |-> distance,
                  self |-> [self EXCEPT
                              !.cached = HashMap_insert(@, <<from, to>>, distance)]]
GraphProvider_at(self, idx) ==
    LET ft == into_index(idx)
        d == GraphProvider_distance(self, ft[1], ft[2])
    IN  [res |-> d.res, calls |-> <<Call(self, idx)>>, self |-> d.self]

\* at of the provider self
provider_at(self, idx) ==
    IF self.kind = "DistanceProvider" THEN DistanceProvider_at(self, idx)
    ELSE GraphProvider_at(self, idx)

\* the locations of the documentation, and a provider over the first n of them
\* with nothing cached
Locations == <<<<0, 1>>, <<3, 5>>, <<7, 2>>, <<1, 2>>>>
MkDistanceProvider(n) ==
    [kind |-> "DistanceProvider", dim |-> 2,
     locations |-> SubSeq(Locations, 1, n), cached |-> <<>>]
\* DistanceProvider::default() of lib.rs
MkGraphProvider ==
    [kind |-> "DistanceProvider(graph)", dim |-> 2, locations |-> <<>>, cached |-> <<>>]

InitCached ==
    /\ \/ \E n \in {0, MaxLen, Len(Locations)} : source = MkDistanceProvider(n)
       \/ source = MkGraphProvider
    /\ pc = "cached"
    /\ NoIterator
    /\ op = "none"
    /\ index = <<>>
    /\ result = NoResult
    /\ iters = <<>>

\* the indices the caller asks: the stub is asked stored positions only
ArgsCached(s) ==
    IF s.kind = "DistanceProvider" THEN IdxArgs(2, WideComps) ELSE IdxArgs(2, Comps)

\* provider.at(idx), as often as the caller likes; the model stops filling the
\* cache at MaxCached entries
CallAtCached ==
    /\ pc = "cached"
    /\ \E idx \in ArgsCached(source) :
          LET r == provider_at(source, idx)
          IN  /\ Cardinality(DOMAIN r.self.cached) <= MaxCached
              /\ op' = "at"
              /\ index' = idx
              /\ result' = [res |-> r.res, calls |-> r.calls]
              /\ source' = r.self
    /\ UNCHANGED <<indices, pc, kind, indices_iter, lookups, yielded, ends, iters>>

NextCached == CallAtCached

SpecCached == InitCached /\ [][NextCached]_vars

\* ------------------------------------------------------------------ consumers
\* Iterator::flatten over items of type Option<T>: the values of the Some items
RECURSIVE flatten(_)
flatten(items) ==
    IF items = <<>> THEN <<>>
    ELSE (IF Head(items) = None THEN <<>> ELSE <<Head(items)[1]>>) \o flatten(Tail(items))
\* Iterator::sum
RECURSIVE sum(_)
sum(items) == IF items = <<>> THEN 0 ELSE Head(items) + sum(Tail(items))
\* ------------------------------------------------------------------ what the claims speak of
\* the components of an index argument, as the caller wrote them
Components(idx) ==
    CASE idx.shape = "usize" -> <<idx.i0>>
      [] idx.shape = "tuple2" -> <<idx.t0, idx.t1>>
      [] idx.shape = "tuple3" -> <<idx.t0, idx.t1, idx.t2>>
      [] idx.shape = "tuple4" -> <<idx.t0, idx.t1, idx.t2, idx.t3>>
      [] idx.shape = "array" -> idx.a
\* the result in the form the operation returns it: a copy for at, a borrow for ref_at
Present(o, v) == IF o = "at" THEN Some(v) ELSE Some(Ref(v))
\* the callee for the operation o
Lookup(o, s, idx) == IF o = "at" THEN at(s, idx) ELSE ref_at(s, idx)
Called == pc = "direct" /\ op # "none"
IsDense1(s) == s.dim = 1 /\ s.kind \in DenseKinds
IsMap1(s) == s.dim = 1 /\ s.kind \in MapKinds
IsNested(s) == s.dim >= 2 /\ s.kind \notin KeyedKinds \cup CallableKinds \cup {"ndarray"}
\* does the outer container of s hold an element for the first component c0
OuterHas(s, c0) == IF s.kind \in SeqKinds THEN c0 < Len(s.data) ELSE c0 \in DOMAIN s.data
OuterElem(s, c0) == IF s.kind \in SeqKinds THEN s.data[c0 + 1] ELSE s.data[c0]
\* the stored number an Option holds, whichever operation produced it
Held(o, r) == IF o = "at" THEN r[1] ELSE r[1].ref

\* C3: for a dense sequence (Vec<T>, [T; N]) of length n, at(p) and ref_at(p) return
\* the element stored at position p when p < n and None when p >= n.
C3_DenseLookup ==
    (Called /\ IsDense1(source)) =>
        LET p == Components(index)[1]
        IN  IF p < Len(source.data)
            THEN result.res = Present(op, source.data[p + 1])
            ELSE result.res = None
\* the last element of a full-length array is read through ref_at
C3_Witness ==
    /\ Called /\ IsDense1(source) /\ op = "ref_at" /\ source.kind = "Array"
    /\ Len(source.data) = MaxLen /\ Components(index)[1] = MaxLen - 1
    /\ result.res = Some(Ref(10 + MaxLen - 1))
\* the first position past the end of a Vec is absent
C3_WitnessPastEnd ==
    /\ Called /\ IsDense1(source) /\ op = "at" /\ source.kind = "Vec"
    /\ Len(source.data) >= 1 /\ Components(index)[1] = Len(source.data)
    /\ result.res = None

\* C4: for a map keyed by one component (HashMap, BTreeMap, IndexMap over usize),
\* at(k) and ref_at(k) return the value stored under k exactly when k is a key of
\* the map and None for every other k, whether or not the keys are contiguous.
C4_MapLookup ==
    (Called /\ IsMap1(source)) =>
        LET k == Components(index)[1]
        IN  IF k \in DOMAIN source.data
            THEN result.res = Present(op, source.data[k])
            ELSE result.res = None
\* a map with a gap in its keys answers a key above the gap and misses the gap
C4_Witness ==
    /\ Called /\ IsMap1(source) /\ source.kind = "HashMap" /\ op = "at"
    /\ DOMAIN source.data = {0, MaxIdx}
    /\ Components(index)[1] = MaxIdx
    /\ result.res = Some(10 + MaxIdx)

\* C5: for a nested source of dimension 3 or 4 (outer Vec, array, HashMap or
\* BTreeMap of sub-sources), at(c0, c1, ...) is None when c0 is not in the outer
\* container and otherwise is what the sub-source under c0 answers for (c1, ...):
\* the sub-source is asked for exactly the remaining components, in order, and an
\* element found is the one stored along the path (c0, c1, ...).
C5_NestedLookup ==
    (Called /\ IsNested(source) /\ source.dim \in {3, 4}) =>
        LET c == Components(index)
            c0 == c[1]
            rest == Tail(c)
        IN  IF OuterHas(source, c0)
            THEN /\ result.res = Lookup(op, OuterElem(source, c0), Array(rest)).res
                 /\ Len(result.calls) >= 2
                 /\ Components(result.calls[2].index) = rest
                 /\ (OuterElem(source, c0).kind = "IndexMap" /\ IsSome(result.res))
                        => Held(op, result.res) = PathCode(c)
            ELSE result.res = None
\* a 3-dimensional Vec answers an index whose last two components differ
C5_Witness ==
    /\ Called /\ source.dim = 3 /\ source.kind = "Vec" /\ op = "at"
    /\ Components(index) = <<1, 0, 1>>
    /\ result.res = Some(101)
\* a 4-dimensional BTreeMap answers through three levels of sub-sources
C5_WitnessD4 ==
    /\ Called /\ source.dim = 4 /\ source.kind = "BTreeMap" /\ op = "at"
    /\ Components(index) = <<1, 0, 1, 0>>
    /\ result.res = Some(1010)

\* C6: in a composed source, when the first component is absent from the outer
\* container the result is None and no lookup is made on any sub-source: the call
\* on the outer container is the only call.
C6_ShortCircuit ==
    (Called /\ IsNested(source) /\ ~OuterHas(source, Components(index)[1])) =>
        /\ result.res = None
        /\ result.calls = <<Call(source, index)>>
\* an outer miss on a non-empty 4-dimensional Vec
C6_Witness ==
    /\ Called /\ source.dim = 4 /\ source.kind = "Vec" /\ op = "at"
    /\ Len(source.data) = 1 /\ Components(index)[1] = 1
    /\ result.res = None /\ Len(result.calls) = 1

\* C7: ScalarAsVec(v) answers at(c) = Some(v) and ref_at(c) = Some(&v) for every
\* index c of every dimension 1 to 4, however large its components.
C7_ScalarTotal ==
    (Called /\ source.kind = "ScalarAsVec") =>
        /\ Len(Components(index)) \in 1..4
        /\ result.res = Present(op, source.data)
\* a 4-dimensional index of large components is answered with the scalar
C7_Witness ==
    /\ Called /\ source.kind = "ScalarAsVec" /\ op = "at"
    /\ index = Tuple4(LargeIdx, LargeIdx, LargeIdx, LargeIdx)
    /\ result.res = Some(42)

\* C8: EmptyVec answers at(c) = None and ref_at(c) = None for every index c of every
\* dimension 1 to 4.
C8_EmptyTotal ==
    (Called /\ source.kind = "EmptyVec") =>
        /\ Len(Components(index)) \in 1..4
        /\ result.res = None
\* index 0 of dimension 1, the first element of any populated source, is absent
C8_Witness ==
    /\ Called /\ source.kind = "EmptyVec" /\ op = "at"
    /\ index = Usize(0)
    /\ result.res = None

\* ------------------------------------------------------------------ claims about the iterators
\* a finite coordinate sequence: every answer of the script is a coordinate
IsFinite(script) == \A k \in 1..Len(script) : script[k] # None
\* the index iterator, whoever holds it
Remaining == IF pc = "init" THEN indices ELSE indices_iter
\* the coordinates among the answers of a script
Coordinates(script) == {k \in 1..Len(script) : script[k] # None}
\* how many coordinates the index iterator has handed out
Consumed == Cardinality(Coordinates(indices)) - Cardinality(Coordinates(Remaining))

\* C1: for a finite coordinate sequence seq, collecting iter_over(seq) gives one
\* entry per coordinate of seq, the k-th being at(seq[k]), in the order of seq.
C1_CollectIsMapAt ==
    (kind = "val" /\ IsFinite(indices) /\ ends >= 1) =>
        yielded = [k \in 1..Len(indices) |-> at(source, indices[k][1]).res]
\* a collected sequence of MaxSeq coordinates with a hit followed by a miss
C1_Witness ==
    /\ kind = "val" /\ IsFinite(indices) /\ ends = 1
    /\ Len(indices) = MaxSeq /\ Len(yielded) = MaxSeq
    /\ yielded[1] = Some(11) /\ yielded[2] = None

\* C2 as stated: once a pull has found the coordinate sequence empty, every later
\* pull yields nothing, for every coordinate sequence iter_over accepts.
C2_ExhaustedIsTerminal == [][ends >= 1 => yielded' = yielded]_vars
\* C2 amended: for a coordinate sequence that, once it has answered None, answers
\* None for ever (every finite sequence, every fused iterator), once a pull has
\* found the sequence empty every later pull yields nothing and makes no lookup.
C2_FusedExhaustedIsTerminal ==
    [][(IsFinite(indices) /\ ends >= 1) => (yielded' = yielded /\ lookups' = lookups)]_vars
\* a second pull past the end of a non-empty finite sequence
C2_Witness ==
    /\ pc = "active" /\ IsFinite(indices) /\ indices # <<>>
    /\ ends = 2 /\ Len(yielded) = Len(indices)

\* C9: the iterator never pre-fetches: after any number of pulls the coordinates
\* consumed, the lookups made on the source and the results yielded are equal in
\* number, each yielded result being the answer to the lookup of its coordinate.
C9_OneLookupPerPull ==
    /\ Consumed = Len(lookups)
    /\ Len(lookups) = Len(yielded)
    /\ \A k \in 1..Len(lookups) : lookups[k].index \in {a[1] : a \in Answers \ {None}}
\* two pulls into a reference iterator with coordinates still to come
C9_Witness ==
    /\ pc = "active" /\ kind = "ref"
    /\ Len(yielded) = 2 /\ Len(lookups) = 2 /\ Consumed = 2
    /\ indices_iter # <<>>

\* C10: the iterator is lazy: a coordinate is consumed or a lookup made only by a
\* pull of a live iterator; creating the iterator does neither, and nothing more
\* happens once the caller stops pulling or drops it.
C10_Lazy ==
    [][(Remaining' # Remaining \/ lookups' # lookups)
            => (pc = "active" /\ pc' = "active" /\ (NextVal \/ NextRef))]_vars
\* an iterator created over a non-empty sequence and dropped without a pull
C10_Witness ==
    /\ pc = "dropped" /\ kind = "val"
    /\ indices # <<>> /\ indices_iter = indices
    /\ lookups = <<>> /\ yielded = <<>>

\* the answer of the source to the coordinate at the head of the index iterator,
\* through the contract the live iterator uses
HeadLookup ==
    IF kind = "val" THEN at(source, Head(indices_iter)[1]) ELSE ref_at(source, Head(indices_iter)[1])
\* the next pull draws a coordinate for which the source holds nothing
AbsentAhead ==
    /\ pc = "active" /\ indices_iter # <<>> /\ Head(indices_iter) # None
    /\ HeadLookup.res = None

\* C11: an absent element never ends the iteration: a pull whose coordinate the
\* source answers with None yields that None as an item, is not counted as an end
\* of the iteration, leaves the iterator active and moves on to the next coordinate.
C11_AbsentIsAnItem ==
    [][(AbsentAhead /\ pc' = "active")
            => /\ yielded' = Append(yielded, None)
               /\ ends' = ends
               /\ indices_iter' = Tail(indices_iter)]_vars
\* an absent item was yielded first and a present one after it, with no end between
C11_Witness ==
    /\ pc = "active" /\ kind = "val" /\ ends = 0
    /\ Len(yielded) = 2 /\ yielded[1] = None /\ IsSome(yielded[2])

\* a 2-dimensional source whose rows are of the other container family than the
\* outer container: a sequence of maps or a map of sequences
IsMixed2(s) ==
    /\ s.dim = 2 /\ IsNested(s)
    /\ \A c0 \in 0..MaxLen + MaxIdx :
          OuterHas(s, c0) => ((OuterElem(s, c0).kind \in SeqKinds) # (s.kind \in SeqKinds))

\* C12: for a 2-dimensional source of two container families (a sequence of maps
\* or a map of sequences), at((i, j)) is Some(v) exactly when the outer container
\* holds a row for i and that row holds v for j; an outer miss and an inner miss in
\* a row that is present both give None, whatever the extents of the other rows.
C12_MixedLookup ==
    (op \in {"at", "val_at"} /\ IsMixed2(source)) =>
        LET i == Components(index)[1]
            j == Components(index)[2]
        IN  IF OuterHas(source, i) /\ OuterHas(OuterElem(source, i), j)
            THEN /\ result.res = Some(OuterElem(OuterElem(source, i), j))
                 /\ result.res = Some(PathCode(<<i, j>>))
            ELSE result.res = None
\* a Vec of two HashMaps with different key sets answers a key only its second
\* row holds
C12_Witness ==
    /\ op = "val_at" /\ source.kind = "Vec" /\ Len(source.data) = 2
    /\ source.data[1].kind = "HashMap"
    /\ DOMAIN source.data[1].data = {} /\ 1 \in DOMAIN source.data[2].data
    /\ index = Tuple2(1, 1) /\ result.res = Some(11)
\* a SmallVec of BTreeMaps misses a key in a present row that another row holds
C12_WitnessInnerMiss ==
    /\ op = "at" /\ source.kind = "SmallVec" /\ source.dim = 2 /\ Len(source.data) = 2
    /\ source.data[1].kind = "BTreeMap"
    /\ 0 \notin DOMAIN source.data[1].data /\ 0 \in DOMAIN source.data[2].data
    /\ Components(index) = <<0, 0>> /\ result.res = None
\* a BTreeMap of Vecs of unequal length answers past the end of its shortest row
C12_WitnessMapOfSeqs ==
    /\ op = "val_at" /\ source.kind = "BTreeMap" /\ DOMAIN source.data = {0, 1}
    /\ Len(source.data[0].data) = 1 /\ Len(source.data[1].data) = 2
    /\ index = Tuple2(1, 1) /\ result.res = Some(11)

\* the coordinates a map keyed by the whole coordinate holds a value for
IsKeyed(s) == s.kind \in KeyedKinds
HeldCoords(s) == {KeyComponents(s.key, k) : k \in DOMAIN s.data}
ValueUnder(s, c) == s.data[CHOOSE k \in DOMAIN s.data : KeyComponents(s.key, k) = c]

\* C13: for a map keyed by the whole coordinate (a tuple or an array of DIM
\* components), at(c) and ref_at(c) return the value stored under the key whose
\* components are those of c, in the same order, when the map holds that key
\* (the key from_index builds from the canonical index of c), and None otherwise.
C13_KeyedLookup ==
    (Called /\ IsKeyed(source)) =>
        LET c == Components(index)
        IN  /\ (c \in HeldCoords(source))
                  <=> (from_index(source.key, into_index(index)) \in DOMAIN source.data)
            /\ IF c \in HeldCoords(source)
               THEN /\ result.res = Present(op, ValueUnder(source, c))
                    /\ Held(op, result.res) = PathCode(c)
               ELSE result.res = None
\* a HashMap keyed by pairs holds (0, 1) and answers it, written as an array
C13_Witness ==
    /\ Called /\ source.kind = "HashMap<Key>" /\ source.key = "tuple2" /\ op = "at"
    /\ index = Array(<<0, 1>>) /\ result.res = Some(1)
\* the same map does not hold (1, 0)
C13_WitnessOrder ==
    /\ Called /\ source.kind = "HashMap<Key>" /\ source.key = "tuple2" /\ op = "ref_at"
    /\ <<0, 1>> \in HeldCoords(source)
    /\ index = Tuple2(1, 0) /\ result.res = None
\* an IndexMap keyed by arrays of four components answers a tuple of four
C13_WitnessIndexMap ==
    /\ Called /\ source.kind = "IndexMap<[usize; DIM]>" /\ source.dim = 4 /\ op = "at"
    /\ index = Tuple4(0, 1, 1, 2) /\ result.res = Some(112)

IsCallable(s) == s.kind \in CallableKinds
\* the invocations of callables among the calls made
Invocations(calls) == SelectSeq(calls, LAMBDA e : e.kind = "Fn(In)")

\* C14: for a callable source (Closure, ClosureOneOf2/3/4, the ClosureOptRef
\* wrappers, Box<dyn Fn(In) -> Option<T>>), at(c)/ref_at(c) invokes the callable
\* exactly once, on the components of c in the shape In, and returns what the
\* callable returned, Some or None.
C14_CallableLookup ==
    (Called /\ IsCallable(source)) =>
        LET input == MkKey(source.In, Components(index))
        IN  /\ input = from_index(source.In, into_index(index))
            /\ Invocations(result.calls)
                    = <<[kind |-> "Fn(In)", dim |-> source.dim, index |-> input]>>
            /\ result.res = call(source, input).res
            /\ IsSome(result.res) => Held(op, result.res) = PathCode(Components(index))
\* a closure over pairs, asked with an array, is invoked on the pair and answers
C14_Witness ==
    /\ Called /\ source.kind = "Closure" /\ source.In = "tuple2" /\ op = "at"
    /\ index = Array(<<0, 1>>) /\ result.res = Some(1)
    /\ Len(Invocations(result.calls)) = 1
\* a ClosureOptRef wrapper hands back the None of its callable
C14_WitnessNone ==
    /\ Called /\ source.kind = "ClosureOptRefOneOf2" /\ op = "ref_at"
    /\ DOMAIN source.data # {} /\ result.res = None
\* a boxed function over a bare index answers an index given as an array
C14_WitnessBox ==
    /\ Called /\ source.kind = "Box<dyn Fn>" /\ source.In = "usize" /\ op = "at"
    /\ index = Array(<<2>>) /\ result.res = Some(2)

\* a source whose type implements both contracts
ImplementsBoth(s) == ImplementsFunVec(s) /\ ImplementsFunVecRef(s)

\* C15: for a source implementing both contracts, at(c) and ref_at(c) agree on
\* every index c: both are None, or at(c) is Some(v) and ref_at(c) is a borrow of
\* a value equal to v; the call made returned its side of the pair.
C15_ValueRefAgree ==
    (Called /\ ImplementsBoth(source)) =>
        LET v == at(source, index).res
            r == ref_at(source, index).res
        IN  /\ result.res = IF op = "at" THEN v ELSE r
            /\ (v = None) <=> (r = None)
            /\ IsSome(v) => r = Some(Ref(v[1]))
            /\ v = copied(r)
\* a borrow out of a 3-dimensional Vec whose copy at returns
C15_Witness ==
    /\ Called /\ op = "ref_at" /\ source.kind = "Vec" /\ source.dim = 3
    /\ result.res = Some(Ref(101)) /\ at(source, index).res = Some(101)
\* both contracts miss the position past the end of a Vec
C15_WitnessAbsent ==
    /\ Called /\ op = "at" /\ IsDense1(source) /\ Len(source.data) = MaxLen
    /\ Components(index)[1] = MaxLen
    /\ result.res = None /\ ref_at(source, index).res = None

\* Is the coordinate c populated in the source s: does the data the caller put
\* into s hold an element along c?  ScalarAsVec is populated everywhere.
RECURSIVE Populated(_, _)
Populated(s, c) ==
    CASE s.kind = "ScalarAsVec" -> TRUE
      [] s.kind = "EmptyVec" -> FALSE
      [] s.kind \in KeyedKinds -> c \in HeldCoords(s)
      [] s.kind = "ndarray" -> \A p \in 1..Len(c) : c[p] < s.shape[p]
      [] s.kind = "Scalar" -> s.data # None
      [] s.kind \in SeqKinds ->
            /\ c[1] < Len(s.data)
            /\ Len(c) = 1 \/ Populated(s.data[c[1] + 1], Tail(c))
      [] OTHER ->
            /\ c[1] \in DOMAIN s.data
            /\ Len(c) = 1 \/ Populated(s.data[c[1]], Tail(c))
\* an index with a component far outside every populated domain
IsFar(idx) == \E p \in 1..Len(Components(idx)) : Components(idx)[p] = LargeIdx

\* C16: absence is the only outcome that is not a value: for every container
\* adapter (dense sequences, maps, nested sources, ScalarAsVec, EmptyVec) and every
\* index, however large its components, the call returns Some or None, and None
\* whenever the coordinate is not populated in the source: never a default value.
C16_AbsenceOnly ==
    (op # "none" /\ ~IsCallable(source)) =>
        /\ result.res = None \/ Len(result.res) = 1
        /\ ~Populated(source, Components(index)) => result.res = None
\* a 4-dimensional HashMap holding elements misses an index whose last component
\* only is far outside
C16_Witness ==
    /\ Called /\ source.kind = "HashMap" /\ source.dim = 4 /\ op = "at"
    /\ Populated(source, <<0, 0, 0, 0>>)
    /\ index = Tuple4(0, 0, 0, LargeIdx) /\ IsFar(index) /\ result.res = None
\* a Vec of maps misses a far row through the earlier contract
C16_WitnessLegacy ==
    /\ op = "val_at" /\ source.kind = "Vec" /\ Len(source.data) = MaxLen
    /\ index = Tuple2(LargeIdx, 0) /\ result.res = None

\* the index of components c written as a bare number or a tuple
TupleOf(c) ==
    CASE Len(c) = 1 -> Usize(c[1])
      [] Len(c) = 2 -> Tuple2(c[1], c[2])
      [] Len(c) = 3 -> Tuple3(c[1], c[2], c[3])
      [] Len(c) = 4 -> Tuple4(c[1], c[2], c[3], c[4])
\* the same components in the other shape: an array for a tuple, a tuple for an array
OtherShape(idx) ==
    IF idx.shape = "array" THEN TupleOf(Components(idx)) ELSE Array(Components(idx))

\* C17: tuple and array indices are interchangeable: for every source, at and
\* ref_at return for an index written as a bare number or a tuple of 2, 3 or 4
\* components what they return for the array of the same components, and back.
C17_ShapesInterchangeable ==
    Called =>
        /\ OtherShape(index).shape # index.shape
        /\ Components(OtherShape(index)) = Components(index)
        /\ Lookup(op, source, OtherShape(index)).res = result.res
\* a pair and the array of its two different components find the same element
C17_Witness ==
    /\ Called /\ op = "at" /\ source.kind = "IndexMap" /\ source.dim = 2
    /\ index = Tuple2(1, 0) /\ result.res = Some(10)
    /\ at(source, Array(<<1, 0>>)).res = Some(10)
    /\ at(source, Array(<<0, 1>>)).res # Some(10)
\* a 4-tuple and the array of its components, through ref_at
C17_WitnessD4 ==
    /\ Called /\ op = "ref_at" /\ source.dim = 4 /\ index.shape = "array"
    /\ Components(index) = <<1, 0, 1, 0>> /\ result.res = Some(Ref(1010))
    /\ ref_at(source, Tuple4(1, 0, 1, 0)).res = Some(Ref(1010))

\* the conversions applied so far, by name
Applied == [k \in 1..Len(result.calls) |-> result.calls[k].kind]

\* C18: the index conversions are total and inverse to each other for a bare
\* index, a tuple of 2, 3 or 4 components and an array of 1 to 4:
\* from_index(into_index(x)) = x when x is asked back in its own shape,
\* into_index(from_index(a)) = a for every canonical array a and every shape, the
\* components keep their order, and an array converts to itself both ways.
C18_ConversionsInverse ==
    pc = "convert" =>
        /\ (Applied = <<"into_index", "from_index">> /\ result.res.shape = index.shape)
                => result.res = index
        /\ (Applied = <<"from_index", "into_index">>) => result.res = index
        /\ op # "none" => Components(result.res) = Components(index)
        /\ (op # "none" /\ result.res.shape = "array" /\ index.shape = "array")
                => result.res = index
\* a 4-tuple of different components comes back from its canonical array
C18_Witness ==
    /\ pc = "convert" /\ Applied = <<"into_index", "from_index">>
    /\ index = Tuple4(0, 1, 2, LargeIdx) /\ result.res = index
    /\ result.calls[2].index = Array(<<0, 1, 2, LargeIdx>>)
\* a canonical array of three comes back from the 3-tuple built from it
C18_WitnessArray ==
    /\ pc = "convert" /\ Applied = <<"from_index", "into_index">>
    /\ index = Array(<<2, 0, 1>>) /\ result.calls[2].index = Tuple3(2, 0, 1)
    /\ result.res = index

\* the loop a caller writes by hand: for i in seq { if let Some(x) = v.at(i) { total += x } }
RECURSIVE ManualSum(_, _)
ManualSum(v, seq) ==
    IF seq = <<>> THEN 0
    ELSE LET got == at(v, Head(seq)).res
         IN  (IF got = None THEN 0 ELSE got[1]) + ManualSum(v, Tail(seq))
\* the coordinates of a finite script, and those of them the source is populated at
CoordSeq(script) == [k \in 1..Len(script) |-> script[k][1]]
PopulatedOnly(s, seq) == SelectSeq(seq, LAMBDA i : Populated(s, Components(i)))

\* C19: for a finite coordinate sequence, iter_over(indices).flatten().sum() is
\* the sum a caller gets by calling at(i) for each i of the sequence in turn and
\* adding the values present; the coordinates the source is not populated at add
\* nothing, so the sum is that over the populated coordinates alone.
C19_SumIsManualSum ==
    (kind = "val" /\ IsFinite(indices) /\ ends >= 1) =>
        /\ sum(flatten(yielded)) = ManualSum(source, CoordSeq(indices))
        /\ sum(flatten(yielded)) = ManualSum(source, PopulatedOnly(source, CoordSeq(indices)))
\* a Vec summed over a sequence that leaves its populated positions: 10 + 11
C19_Witness ==
    /\ kind = "val" /\ IsFinite(indices) /\ ends = 1
    /\ source.kind = "Vec" /\ Len(source.data) = 2
    /\ CoordSeq(indices) = <<Usize(0), Usize(2), Usize(1)>>
    /\ yielded = <<Some(10), None, Some(11)>>
    /\ sum(flatten(yielded)) = 21

\* the pulls made on the live iterator
PullsMade == Len(yielded) + ends
\* what a value iterator created by iter_over(v, idxs) has yielded, how often it
\* has reported the end and what it holds after n pulls
RECURSIVE ValueRun(_, _, _)
ValueRun(v, idxs, n) ==
    IF n = 0
    THEN [yielded |-> <<>>, ends |-> 0, indices_iter |-> iter_over(v, idxs).indices_iter]
    ELSE LET before == ValueRun(v, idxs, n - 1)
             p == IterOverValues_next(v, before.indices_iter)
         IN  [yielded |-> IF p.item = None THEN before.yielded
                          ELSE Append(before.yielded, p.item[1]),
              ends |-> IF p.item = None THEN before.ends + 1 ELSE before.ends,
              indices_iter |-> p.indices_iter]

\* C20: the reference iterator behaves as the value iterator does: after any
\* number of pulls of ref_iter_over(indices), a value iterator over the same
\* source and coordinate sequence pulled as often has yielded as many items and
\* reported the end as often, so each pull ends or yields in both; the k-th items
\* are both None, or a borrow of a value and that value.
C20_RefIterAsValueIter ==
    (kind = "ref" /\ ImplementsBoth(source)) =>
        LET val == ValueRun(source, indices, PullsMade)
        IN  /\ Len(yielded) = Len(val.yielded)
            /\ ends = val.ends
            /\ indices_iter = val.indices_iter
            /\ \A k \in 1..Len(yielded) :
                  IF val.yielded[k] = None THEN yielded[k] = None
                  ELSE yielded[k] = Some(Ref(val.yielded[k][1]))
\* a reference iterator over a Vec that yielded a borrow, then None, then ended
C20_Witness ==
    /\ kind = "ref" /\ source.kind = "Vec" /\ ends = 1
    /\ yielded = <<Some(Ref(10)), None>>
    /\ ValueRun(source, indices, 3).yielded = <<Some(10), None>>

\* the families a mapping from a bare index to values is held in: the maps keyed
\* by usize, the closure wrappers and the boxed function
Families1 == MapKinds \cup ValueCallableKinds
\* the mapping a 1-dimensional map s holds, held by the family kd instead
InFamily(s, kd) ==
    IF kd \in CallableKinds
    THEN [kind |-> kd, dim |-> 1, In |-> "usize", data |-> s.data]
    ELSE [kind |-> kd, dim |-> 1, data |-> s.data]

\* C21: the result depends on the mapping a source holds and not on the family
\* holding it: a HashMap, a BTreeMap, an IndexMap, a closure wrapper of any
\* variant and a boxed function over the same mapping answer at alike on every
\* index, and iter_over over them yields and ends alike, pull for pull.
C21_FamilyIndependent ==
    (source.kind = "HashMap" /\ source.dim = 1) =>
        \A kd \in Families1 :
            /\ \A idx \in IdxArgs(1, WideComps) :
                  at(InFamily(source, kd), idx).res = at(source, idx).res
            /\ kind = "val" =>
                  LET other == ValueRun(InFamily(source, kd), indices, PullsMade)
                  IN  /\ other.yielded = yielded
                      /\ other.ends = ends
                      /\ other.indices_iter = indices_iter
\* a HashMap with a gap in its keys has yielded a value and a miss and ended, as
\* the boxed function and the BTreeMap over the same mapping do
C21_Witness ==
    /\ kind = "val" /\ source.kind = "HashMap" /\ DOMAIN source.data = {0, 2}
    /\ ends = 1 /\ yielded = <<Some(12), None, Some(10)>>
    /\ ValueRun(InFamily(source, "Box<dyn Fn>"), indices, 4).yielded = yielded
    /\ ValueRun(InFamily(source, "BTreeMap"), indices, 4).yielded = yielded

RECURSIVE RefRun(_, _, _)
RefRun(v, idxs, n) ==
    IF n = 0
    THEN [yielded |-> <<>>, ends |-> 0, indices_iter |-> ref_iter_over(v, idxs).indices_iter]
    ELSE LET before == RefRun(v, idxs, n - 1)
             p == IterOverRefs_next(v, before.indices_iter)
         IN  [yielded |-> IF p.item = None THEN before.yielded
                          ELSE Append(before.yielded, p.item[1]),
              ends |-> IF p.item = None THEN before.ends + 1 ELSE before.ends,
              indices_iter |-> p.indices_iter]
\* the n-th iterator pulled alone as often as it has been pulled
Alone(n) ==
    LET it == iters[n]
        pulls == Len(it.yielded) + it.ends
    IN  IF it.kind = "val" THEN ValueRun(source, it.indices, pulls)
        ELSE RefRun(source, it.indices, pulls)

C23_FiniteTerminates ==
    /\ [](IsFinite(indices) =>
            /\ Len(yielded) <= Len(indices)
            /\ ends >= 1 => Len(yielded) = Len(indices))
    /\ (pc = "active" /\ IsFinite(indices)) ~> (pc = "dropped" \/ ends >= 1)
\* a reference iterator over MaxSeq coordinates of an EmptyVec at its end
C23_Witness ==
    /\ kind = "ref" /\ source = MkEmpty
    /\ IsFinite(indices) /\ Len(indices) = MaxSeq
    /\ yielded = [k \in 1..MaxSeq |-> None] /\ ends = 1

\* C26: a pull that finds the coordinate sequence empty makes no lookup and
\* yields nothing; a lookup is made only by a step that took a coordinate from
\* the head of the sequence, and it is the lookup of that coordinate; so an
\* iterator over an empty sequence never touches the source.
C26_EmptyPullNoLookup ==
    /\ [][(pc = "active" /\ indices_iter = <<>>)
                => (lookups' = lookups /\ yielded' = yielded)]_vars
    /\ [][lookups' # lookups
                => /\ indices_iter # <<>> /\ Head(indices_iter) # None
                   /\ Len(lookups') = Len(lookups) + 1
                   /\ lookups'[Len(lookups')].index = Head(indices_iter)[1]]_vars
    /\ [](indices = <<>> => (lookups = <<>> /\ yielded = <<>>))
\* a value iterator over the empty sequence on a populated Vec, pulled MaxEnds times
C26_Witness ==
    /\ pc = "active" /\ kind = "val"
    /\ source.kind = "Vec" /\ Len(source.data) = MaxLen
    /\ indices = <<>> /\ ends = MaxEnds
    /\ lookups = <<>> /\ yielded = <<>>

\* C24: a SmallVec with inline capacity C holding n elements answers by position:
\* at(p) is the element at position p and ref_at(p) a borrow of it when p < n,
\* both are None when p >= n, whether n <= C or the elements have spilled (n > C).
IsSmallVec1(s) == s.kind = "SmallVec" /\ s.dim = 1
C24_SmallVecByPosition ==
    (Called /\ IsSmallVec1(source)) =>
        LET p == Components(index)[1]
        IN  IF p < Len(source.data)
            THEN result.res = Present(op, source.data[p + 1])
            ELSE result.res = None
\* at finds the element past the inline capacity of a spilled SmallVec<[T; 2]>
C24_Witness ==
    /\ Called /\ op = "at" /\ IsSmallVec1(source)
    /\ source.capacity = 2 /\ Len(source.data) = 3
    /\ index = Usize(2) /\ result.res = Some(12)
\* ref_at past the end of a SmallVec that fits its inline capacity
C24_WitnessInlineMiss ==
    /\ Called /\ op = "ref_at" /\ IsSmallVec1(source)
    /\ source.capacity = 2 /\ Len(source.data) = 1
    /\ index = Usize(1) /\ result.res = None

\* C25: an ndarray source (Array1 to Array4) of shape (s0, ..., s_{D-1}) answers
\* at(c) with the element stored for c, and ref_at(c) with a borrow of it, when
\* every component of c is below the extent of its axis, and both with None as
\* soon as one component is not.
IsNdArray(s) == s.kind = "ndarray"
C25_NdArrayWithinShape ==
    (Called /\ IsNdArray(source)) =>
        LET c == Components(index)
        IN  IF \A p \in 1..source.dim : c[p] < source.shape[p]
            THEN result.res = Present(op, PathCode(c))
            ELSE result.res = None
\* at on an Array4 of shape (2, 1, 2, 1) finds the last element
C25_Witness ==
    /\ Called /\ op = "at" /\ IsNdArray(source)
    /\ source.shape = <<2, 1, 2, 1>>
    /\ Components(index) = <<1, 0, 1, 0>> /\ result.res = Some(1010)
\* ref_at on an Array2 of shape (2, 2): the second component alone is out of its
\* extent, and the place it would have in the buffer is that of another element
C25_WitnessOneAxisOut ==
    /\ Called /\ op = "ref_at" /\ IsNdArray(source)
    /\ source.shape = <<2, 2>>
    /\ index = Tuple2(0, 2) /\ result.res = None
    /\ Offset(source.shape, <<0, 2>>) < Len(source.data)
\* at on an Array1 past its length
C25_WitnessArray1 ==
    /\ Called /\ op = "at" /\ IsNdArray(source)
    /\ source.shape = <<1>> /\ index = Usize(1) /\ result.res = None

\* C28: the Scalar wrapper of the earlier contracts answers uniformly: built by
\* Scalar::new(v) or from v it answers every pair (FunVecD2::val_at) and every
\* triple (FunVecD3::at) with Some(v), built by Scalar::none() it answers every
\* one with None.
IsLegacyScalar(s) == s.kind = "Scalar"
Uniform(s, o) ==
    /\ \A i \in WideComps, j \in WideComps : FunVecD2_val_at(s, i, j).res = o
    /\ \A i \in WideComps, j \in WideComps, k \in WideComps : FunVecD3_at(s, i, j, k).res = o
C28_LegacyScalarUniform ==
    (pc = "legacy" /\ IsLegacyScalar(source)) =>
        /\ \A v \in ScalarValues :
              source \in {Scalar_new(v), Scalar_from(v)} =>
                  /\ Uniform(source, Some(v))
                  /\ op # "none" => result.res = Some(v)
        /\ source = Scalar_none =>
              /\ Uniform(source, None)
              /\ op # "none" => result.res = None
\* Scalar::new(42) asked through FunVecD2 for a pair far from any stored position
C28_Witness ==
    /\ pc = "legacy" /\ op = "val_at" /\ source = Scalar_new(42)
    /\ index = Tuple2(LargeIdx, 0) /\ result.res = Some(42)
\* Scalar::none() asked through FunVecD3 for the triple (0, 0, 0)
C28_WitnessNone ==
    /\ pc = "legacy" /\ op = "FunVecD3::at" /\ source = Scalar_none
    /\ index = Tuple3(0, 0, 0) /\ result.res = None

\* C30: the constant and the empty source are elements like any other: a Vec or
\* array of n elements ScalarAsVec(v_i), as a 3- or 4-dimensional source, answers
\* (i, rest...) with v_i when i < n, whatever the rest is, and with None when
\* i >= n; a Vec or array of EmptyVec elements answers every index with None.
IsSeqOf(s, kd) ==
    /\ s.kind \in DenseKinds /\ s.dim \in {3, 4}
    /\ \A p \in 1..Len(s.data) : s.data[p].kind = kd
C30_ScalarElements ==
    Called =>
        LET i == Components(index)[1]
        IN  /\ IsSeqOf(source, "ScalarAsVec") =>
                  IF i < Len(source.data)
                  THEN result.res = Present(op, source.data[i + 1].data)
                  ELSE result.res = None
            /\ IsSeqOf(source, "EmptyVec") => result.res = None
\* a Vec of two ScalarAsVec as a 3-dimensional source: the element 1 answers
\* whatever the other components are
C30_Witness ==
    /\ Called /\ op = "at" /\ IsSeqOf(source, "ScalarAsVec")
    /\ source.kind = "Vec" /\ source.dim = 3 /\ Len(source.data) = 2
    /\ Components(index) = <<1, MaxIdx, MaxIdx>>
    /\ result.res = Some(100)
\* the element 0 answers an index with a component far outside
C30_WitnessFar ==
    /\ Called /\ op = "ref_at" /\ IsSeqOf(source, "ScalarAsVec")
    /\ source.kind = "Array" /\ source.dim = 3 /\ Len(source.data) = 1
    /\ Components(index) = <<0, LargeIdx, 0>>
    /\ result.res = Some(Ref(0))
\* the same Vec has no element 2
C30_WitnessPastEnd ==
    /\ Called /\ op = "ref_at" /\ IsSeqOf(source, "ScalarAsVec")
    /\ source.dim = 4 /\ Len(source.data) = 2
    /\ Components(index) = <<2, 0, 0, 0>>
    /\ result.res = None
\* an array of two EmptyVec answers None at an element it holds
C30_WitnessEmpty ==
    /\ Called /\ op = "at" /\ IsSeqOf(source, "EmptyVec")
    /\ source.kind = "Array" /\ Len(source.data) = 2
    /\ Components(index) = <<0, 0, 0>>
    /\ result.res = None

\* C27: the cache of the DistanceProvider never changes an answer: after any
\* sequence of at calls every cached entry is the value the computation gives for
\* its pair, and the call just made returned what a provider with an empty cache
\* returns for the index.
Uncached(s) == [s EXCEPT !.cached = <<>>]
C27_CacheAgrees ==
    pc = "cached" =>
        /\ \A k \in DOMAIN source.cached :
              IF source.kind = "DistanceProvider"
              THEN /\ k[1] < Len(source.locations) /\ k[2] < Len(source.locations)
                   /\ source.cached[k] =
                        euclidean(source.locations[k[1] + 1], source.locations[k[2] + 1])
              ELSE source.cached[k] = GraphProvider_compute_shortest_distance(source, k[1], k[2])
        /\ op # "none" => result.res = provider_at(Uncached(source), index).res
        /\ \A idx \in ArgsCached(source) :
              provider_at(source, idx).res = provider_at(Uncached(source), idx).res
\* the documentation's provider answers at([0, 1]) with 5 from the cache, which
\* holds other pairs as well
C27_Witness ==
    /\ pc = "cached" /\ source.kind = "DistanceProvider"
    /\ Len(source.locations) = 4
    /\ <<0, 1>> \in DOMAIN source.cached /\ Cardinality(DOMAIN source.cached) = MaxCached
    /\ source.cached[<<0, 1>>] = 5
    /\ op = "at" /\ index = Array(<<0, 1>>) /\ result.res = Some(5)
\* a pair outside the locations is not cached and answered None
C27_WitnessNone ==
    /\ pc = "cached" /\ source.kind = "DistanceProvider"
    /\ source.cached # <<>>
    /\ op = "at" /\ index = Tuple2(0, LargeIdx) /\ result.res = None
\* the provider of lib.rs answers from its cache
C27_WitnessGraph ==
    /\ pc = "cached" /\ source.kind = "DistanceProvider(graph)"
    /\ DOMAIN source.cached = {<<0, 1>>, <<1, 0>>}
    /\ op = "at" /\ index = Tuple2(0, 1) /\ result.res = Some(1)

====
